---- MODULE Spec2Model ----
(***************************************************************************)
(* EPiC-infrastructure: the scheduled Lambda handlers.                     *)
(*                                                                         *)
(*   Backup Rotator    terraform/modules/database-backup/lambda/           *)
(*                     db_backup.py                                        *)
(*   Compliance Scorer terraform/modules/compliance-monitoring/lambda/     *)
(*                     compliance_checker.py                               *)
(*                                                                         *)
(* Each handler is a state machine over its own variables; the AWS APIs it *)
(* calls are the environment: every call either raises or returns a        *)
(* response drawn from a small set.                                        *)
(***************************************************************************)
EXTENDS Integers, Sequences, FiniteSets, TLC

(***************************************************************************)
(* Python floats.  calculate_compliance_score computes in IEEE-754 binary64*)
(* (round to nearest, ties to even).  A double is modelled exactly: zero,  *)
(* or a 53-bit significand m and an exponent e with value m * 2^e.  The    *)
(* significand is a natural number kept as a little-endian sequence of     *)
(* limbs in base 2^15, since the checker's integers are 32 bits wide.      *)
(* Every value the scorer computes is non-negative, finite and normal.     *)
(***************************************************************************)
LimbBits == 15

Base == 32768

MantBits == 53

RECURSIVE Pow2(_)
Pow2(k) == IF k = 0 THEN 1 ELSE 2 * Pow2(k - 1)

RECURSIVE BNorm(_)
BNorm(a) ==
    IF a = <<>> THEN a
    ELSE IF a[Len(a)] = 0 THEN BNorm(SubSeq(a, 1, Len(a) - 1)) ELSE a

RECURSIVE IntToB(_)
IntToB(n) == IF n = 0 THEN <<>> ELSE <<n % Base>> \o IntToB(n \div Base)

Limb(a, i) == IF i <= Len(a) THEN a[i] ELSE 0

RECURSIVE BAddFrom(_, _, _, _)
BAddFrom(a, b, i, carry) ==
    IF i > Len(a) /\ i > Len(b)
    THEN (IF carry = 0 THEN <<>> ELSE <<carry>>)
    ELSE LET s == Limb(a, i) + Limb(b, i) + carry
         IN  <<s % Base>> \o BAddFrom(a, b, i + 1, s \div Base)

BAdd(a, b) == BAddFrom(a, b, 1, 0)

RECURSIVE BSubFrom(_, _, _, _)
BSubFrom(a, b, i, borrow) ==
    IF i > Len(a) THEN <<>>
    ELSE LET d == Limb(a, i) - Limb(b, i) - borrow
         IN  IF d < 0 THEN <<d + Base>> \o BSubFrom(a, b, i + 1, 1)
                      ELSE <<d>> \o BSubFrom(a, b, i + 1, 0)

\* a - b for a >= b
BSub(a, b) == BNorm(BSubFrom(a, b, 1, 0))

RECURSIVE BCmpFrom(_, _, _)
BCmpFrom(a, b, i) ==
    IF i = 0 THEN 0
    ELSE IF a[i] < b[i] THEN -1
    ELSE IF a[i] > b[i] THEN 1
    ELSE BCmpFrom(a, b, i - 1)

\* -1, 0, 1 as a < b, a = b, a > b; a and b without leading zero limbs
BCmp(a, b) ==
    IF Len(a) < Len(b) THEN -1
    ELSE IF Len(a) > Len(b) THEN 1
    ELSE BCmpFrom(a, b, Len(a))

RECURSIVE BMulSmallFrom(_, _, _, _)
BMulSmallFrom(a, k, i, carry) ==
    IF i > Len(a) THEN (IF carry = 0 THEN <<>> ELSE <<carry>>)
    ELSE LET p == a[i] * k + carry
         IN  <<p % Base>> \o BMulSmallFrom(a, k, i + 1, p \div Base)

\* a * k for 0 <= k < Base
BMulSmall(a, k) == IF k = 0 THEN <<>> ELSE BMulSmallFrom(a, k, 1, 0)

Zeros(n) == [i \in 1..n |-> 0]

RECURSIVE BMulFrom(_, _, _)
BMulFrom(a, b, j) ==
    IF j > Len(b) THEN <<>>
    ELSE BAdd(Zeros(j - 1) \o BMulSmall(a, b[j]), BMulFrom(a, b, j + 1))

BMul(a, b) == BNorm(BMulFrom(a, b, 1))

RECURSIVE BDivSmallFrom(_, _, _, _)
BDivSmallFrom(a, k, i, rem) ==
    IF i = 0 THEN <<>>
    ELSE LET cur == rem * Base + a[i]
         IN  BDivSmallFrom(a, k, i - 1, cur % k) \o <<cur \div k>>

\* floor(a / k) for 0 < k <= Base
BDivSmall(a, k) == BNorm(BDivSmallFrom(a, k, Len(a), 0))

\* a * 2^n
BShl(a, n) ==
    IF a = <<>> THEN <<>>
    ELSE Zeros(n \div LimbBits) \o BMulSmall(a, Pow2(n % LimbBits))

\* floor(a / 2^n)
BShr(a, n) ==
    IF Len(a) <= n \div LimbBits THEN <<>>
    ELSE BDivSmall(SubSeq(a, (n \div LimbBits) + 1, Len(a)), Pow2(n % LimbBits))

RECURSIVE IntBitLen(_)
IntBitLen(n) == IF n = 0 THEN 0 ELSE 1 + IntBitLen(n \div 2)

BBitLen(a) == IF a = <<>> THEN 0 ELSE LimbBits * (Len(a) - 1) + IntBitLen(a[Len(a)])

\* bit i (0 = least significant) of a
BBit(a, i) == (Limb(a, (i \div LimbBits) + 1) \div Pow2(i % LimbBits)) % 2

BOdd(a) == a # <<>> /\ a[1] % 2 = 1

\* the largest digit d < Base with b * d <= r, found bit by bit from the top;
\* r < b * Base
RECURSIVE QuotDigit(_, _, _, _)
QuotDigit(r, b, bit, d) ==
    IF bit < 0 THEN d
    ELSE IF BCmp(BMulSmall(b, d + Pow2(bit)), r) <= 0
         THEN QuotDigit(r, b, bit - 1, d + Pow2(bit))
         ELSE QuotDigit(r, b, bit - 1, d)

\* Op applied to the values of its arguments, each evaluated once
Bind1(x, Op(_)) == CHOOSE r \in { Op(v) : v \in {x} } : TRUE

Bind2(x, y, Op(_, _)) == CHOOSE r \in { Op(v, w) : v \in {x}, w \in {y} } : TRUE

\* one step of the long division: limb below the quotient and remainder hi
BDivModStep(limb, b, hi) ==
    Bind1(BNorm(<<limb>> \o hi.rem),
          LAMBDA r : Bind1(IF BCmp(r, b) < 0 THEN 0 ELSE QuotDigit(r, b, LimbBits - 1, 0),
                           LAMBDA d : [quot |-> <<d>> \o hi.quot,
                                       rem  |-> BSub(r, BMulSmall(b, d))]))

\* long division, one limb of a at a time from the top: quotient and
\* remainder of a[i..] / b, b > 0
RECURSIVE BDivModFrom(_, _, _)
BDivModFrom(a, b, i) ==
    IF i > Len(a) THEN [quot |-> <<>>, rem |-> <<>>]
    ELSE Bind1(BDivModFrom(a, b, i + 1), LAMBDA hi : BDivModStep(a[i], b, hi))

BDivModV(a, b) ==
    LET d == BDivModFrom(a, b, 1) IN [quot |-> BNorm(d.quot), rem |-> d.rem]

BDivMod(a, b) == Bind2(a, b, BDivModV)

FZero == [m |-> <<>>, e |-> 0]

\* the double nearest to n * 2^e (+ a non-zero fraction of an ulp of n when
\* sticky), ties to even; n > 0
FRoundV(n, e, sticky) ==
    LET len == BBitLen(n)
    IN  IF len <= MantBits
        THEN [m |-> BShl(n, MantBits - len), e |-> e - (MantBits - len)]
        ELSE LET s    == len - MantBits
                 q    == BShr(n, s)
                 rem  == BSub(n, BShl(q, s))
                 half == BShl(<<1>>, s - 1)
                 c    == BCmp(rem, half)
                 up   == c > 0 \/ (c = 0 /\ (sticky \/ BOdd(q)))
                 q2   == IF up THEN BAdd(q, <<1>>) ELSE q
             IN  IF BBitLen(q2) > MantBits
                 THEN [m |-> BShr(q2, 1), e |-> e + s + 1]
                 ELSE [m |-> q2, e |-> e + s]

FRound(n, e, sticky) == Bind1(n, LAMBDA v : FRoundV(v, e, sticky))

\* float(n) for an int n >= 0
FromInt(n) == IF n = 0 THEN FZero ELSE FRound(IntToB(n), 0, FALSE)

FMulV(x, y) ==
    IF x.m = <<>> \/ y.m = <<>> THEN FZero
    ELSE FRound(BMul(x.m, y.m), x.e + y.e, FALSE)

FMul(x, y) == Bind2(x, y, FMulV)

FAddV(x, y) ==
    IF x.m = <<>> THEN y
    ELSE IF y.m = <<>> THEN x
    ELSE LET e == IF x.e < y.e THEN x.e ELSE y.e
         IN  FRound(BAdd(BShl(x.m, x.e - e), BShl(y.m, y.e - e)), e, FALSE)

FAdd(x, y) == Bind2(x, y, FAddV)

\* x - y for x >= y
FSubV(x, y) ==
    IF y.m = <<>> THEN x
    ELSE LET e == IF x.e < y.e THEN x.e ELSE y.e
             n == BSub(BShl(x.m, x.e - e), BShl(y.m, y.e - e))
         IN  IF n = <<>> THEN FZero ELSE FRound(n, e, FALSE)

FSub(x, y) == Bind2(x, y, FSubV)

\* x / y for y > 0
FDivV(x, y) ==
    IF x.m = <<>> THEN FZero
    ELSE IF x.m = y.m THEN [m |-> BShl(<<1>>, MantBits - 1), e |-> x.e - y.e - (MantBits - 1)]
    ELSE LET d == BDivMod(BShl(x.m, MantBits + 3), y.m)
         IN  FRound(d.quot, x.e - (MantBits + 3) - y.e, d.rem # <<>>)

FDiv(x, y) == Bind2(x, y, FDivV)

\* -1, 0, 1 as x < y, x = y, x > y
FCmpV(x, y) ==
    IF x.m = <<>> /\ y.m = <<>> THEN 0
    ELSE IF x.m = <<>> THEN -1
    ELSE IF y.m = <<>> THEN 1
    ELSE IF x.e < y.e THEN -1
    ELSE IF x.e > y.e THEN 1
    ELSE BCmp(x.m, y.m)

FCmp(x, y) == Bind2(x, y, FCmpV)

FLess(x, y) == FCmp(x, y) < 0

\* the literal a.b... of the source as the double nearest to num/den
FLiteral(num, den) == FDiv(FromInt(num), FromInt(den))

(***************************************************************************)
(* Compliance Scorer: the score.                                           *)
(***************************************************************************)

\* dict.get(key, 0)
Get0(d, key) == IF key \in DOMAIN d THEN d[key] ELSE 0

\* Python's "a or b" on ints
PyOr(a, b) == IF a # 0 THEN a ELSE b

\* The float literals of the source, as the binary64 nearest to the decimal:
\*   0.4  = 0x1.999999999999ap-2     0.15 = 0x1.3333333333333p-3
\*   0.10 = 0x1.999999999999ap-4     0.05 = 0x1.999999999999ap-5
\* (FLiteral(4, 10) etc. evaluate to exactly these records)
Lit040 == [m |-> <<6554, 13107, 26214, 204>>, e |-> -54]

Lit015 == [m |-> <<13107, 26214, 19660, 153>>, e |-> -55]

Lit010 == [m |-> <<6554, 13107, 26214, 204>>, e |-> -56]

Lit005 == [m |-> <<6554, 13107, 26214, 204>>, e |-> -57]

\* the weights of the custom checks, in the dict's iteration order
check_weights ==
    << [name |-> "tagging_compliance", weight |-> Lit015],
       [name |-> "security_groups",    weight |-> Lit015],
       [name |-> "s3_bucket_policies", weight |-> Lit015],
       [name |-> "encryption_status",  weight |-> Lit010],
       [name |-> "public_access",      weight |-> Lit005] >>

config_weight == Lit040

\* 100 = 0x1.9p+6
Hundred == [m |-> <<0, 0, 0, 200>>, e |-> -46]

check_total(check_data) ==
    PyOr(Get0(check_data, "total_resources"),
         PyOr(Get0(check_data, "total_buckets"),
              Get0(check_data, "total_security_groups")))

check_compliant(check_data) ==
    PyOr(Get0(check_data, "compliant_resources"),
         PyOr(Get0(check_data, "compliant_buckets"),
              PyOr(Get0(check_data, "compliant_security_groups"),
                   PyOr(Get0(check_data, "encrypted_resources"),
                        Get0(check_data, "private_resources")))))

\* (compliant / total) * 100
percentage(compliant, total) == FMul(FDiv(FromInt(compliant), FromInt(total)), Hundred)

\* the sums after the config-rules block
config_sums(config_status) ==
    IF Get0(config_status, "total_rules") > 0
    THEN [score  |-> FAdd(FZero, FMul(percentage(config_status.compliant_rules,
                                                  config_status.total_rules),
                                       config_weight)),
          weight |-> FAdd(FZero, config_weight)]
    ELSE [score |-> FZero, weight |-> FZero]

\* one iteration of the loop over check_weights
check_step(check_data, weight, acc) ==
    LET total     == check_total(check_data)
        compliant == check_compliant(check_data)
    IN  IF total > 0
        THEN [score  |-> FAdd(acc.score, FMul(percentage(compliant, total), weight)),
              weight |-> FAdd(acc.weight, weight)]
        ELSE acc

\* the sums after the loop over check_weights[i..]; each iteration's sums are
\* bound as a value before the next iteration uses them
RECURSIVE check_sums(_, _, _)
check_sums(custom_checks, i, acc) ==
    IF i > Len(check_weights) THEN acc
    ELSE CHOOSE r \in { check_sums(custom_checks, i + 1, a) :
                        a \in { check_step(custom_checks[check_weights[i].name],
                                           check_weights[i].weight, acc) } } : TRUE

\* a score that counts an account without evaluated resources as compliant
final_score_vacuous(sums) ==
    IF FLess(FZero, sums.weight) THEN FDiv(sums.score, sums.weight) ELSE Hundred

\* the sum of the scores without the division by the weights applied
final_score_unnormalised(sums) == sums.score

\* lines 472-475
final_score(sums) ==
    IF FLess(FZero, sums.weight) THEN FDiv(sums.score, sums.weight) ELSE FZero

calculate_compliance_score(config_status, custom_checks) ==
    CHOOSE r \in { final_score(check_sums(custom_checks, 1, c)) :
                   c \in { config_sums(config_status) } } : TRUE

(***************************************************************************)
(* Backup Rotator (db_backup.py).                                          *)
(*                                                                         *)
(* Time is counted in ticks of half a second, so that two calls can fall   *)
(* in the same second; datetime.utcnow() reads the clock `now`.            *)
(***************************************************************************)
MaxInstances == 2

MaxClusters == 1

MaxSnapshots == 1

MaxClusterSnapshots == 1

MaxTicks == 1

TicksPerSecond == 2

SecondsPerDay == 86400

RETENTION_DAYS == 30

\* timedelta(days=RETENTION_DAYS), in ticks
RetentionTicks == RETENTION_DAYS * SecondsPerDay * TicksPerSecond

\* the clock when the handler is invoked
StartTime == RetentionTicks + 10

VARIABLES
    now,                  \* the clock, in ticks
    rds_instances,        \* the account's DB instances (describe_db_instances)
    rds_clusters,         \* the account's DB clusters (describe_db_clusters)
    rds_snapshots,        \* the manual DB snapshots created since the invocation
    rds_cluster_snapshots,\* the manual cluster snapshots created since the invocation
    deleted_snapshots,    \* the identifiers of the snapshots the service has deleted
    backup_pc,            \* the handler's position
    idx,                  \* the position of the running for loop in its list
    db_instances,         \* handler: the list get_rds_instances returned
    db_clusters,          \* handler: the list get_rds_clusters returned
    snapshots,            \* cleanup_old_snapshots: the list being iterated
    cutoff_date,          \* cleanup_old_snapshots: cutoff_date
    cleanup_results,      \* cleanup_old_snapshots: cleanup_results
    backup_results,       \* handler: backup_results
    error_msg,            \* handler: error_msg of the except clause
    requests,             \* every request sent to RDS and SNS, in order
    sns_messages,         \* the messages SNS accepted
    backup_response       \* what the handler returned

backup_vars ==
    << now, rds_instances, rds_clusters, rds_snapshots, rds_cluster_snapshots,
       deleted_snapshots, backup_pc, idx, db_instances, db_clusters, snapshots,
       cutoff_date, cleanup_results, backup_results, error_msg, requests,
       sns_messages, backup_response >>

VARIABLES
    account,              \* Compliance Scorer: the resources the AWS APIs report
    SNS_TOPIC_ARN,        \* the environment variable SNS_TOPIC_ARN ("" when unset)
    compliance_pc,        \* the handler's position
    custom_checks,        \* perform_custom_checks: the dict being built
    compliance_report,    \* handler: compliance_report
    raised,               \* the checks whose AWS call raised an exception
    notification_calls,   \* the calls of send_compliance_notification
    compliance_requests,  \* every request sent to SNS, in order
    compliance_response   \* what the handler returned

compliance_vars ==
    << account, SNS_TOPIC_ARN, compliance_pc, custom_checks, compliance_report,
       raised, notification_calls, compliance_requests, compliance_response >>

VARIABLES
    score_args,           \* the arguments of a call of calculate_compliance_score
    score_result          \* what the call returned

score_vars == << score_args, score_result >>

VARIABLES
    id_args,              \* two backups: the source identifier and the clock of each
    id_result             \* the snapshot identifiers computed for them

id_vars == << id_args, id_result >>

VARIABLES
    webhook_url,          \* Notification Relay: SLACK_WEBHOOK_URL ("" when unset)
    event,                \* the event the relay is invoked with
    relay_pc,             \* the relay handler's position
    relay_idx,            \* the position of the for loop in event['Records']
    posts,                \* every POST issued, in order, with what came back
    relay_response        \* what the relay handler returned

relay_vars == << webhook_url, event, relay_pc, relay_idx, posts, relay_response >>

VARIABLES
    savings_call          \* a call of estimate_instance_cost_savings and its result

savings_vars == << savings_call >>

VARIABLES
    ec2_call,             \* a call of analyze_ec2_instances: what AWS answers, the result
    rds_call              \* a call of analyze_rds_instances: what AWS answers, the result

analysis_vars == << ec2_call, rds_call >>

VARIABLES
    cost_account,         \* what the Cost Optimizer's requests answer
    cost_pc,              \* the handler's position
    cost_report,          \* handler: recommendations
    notification_attempts,\* the calls of send_recommendations_notification
    cost_messages,        \* the messages SNS accepted
    cost_response         \* what the handler returned

cost_vars ==
    << cost_account, cost_pc, cost_report, notification_attempts, cost_messages,
       cost_response >>

VARIABLES
    race_now,             \* the clock the two invocations share, in ticks
    race_account,         \* the account's DB instances and DB clusters
    service,              \* the manual snapshots the service holds
    runs,                 \* each invocation's position and local variables
    lost,                 \* each invocation's requests that the service refused
    race_messages         \* the summaries SNS accepted, by invocation

race_vars == << race_now, race_account, service, runs, lost, race_messages >>

VARIABLES
    retention_call        \* a snapshot a run created, the run's cleanup, and its verdict

retention_vars == << retention_call >>

VARIABLES
    notify_call           \* send_compliance_notification called with a report: its
                          \* position, the topic, the score and what it published

notify_vars == << notify_call >>

vars ==
    << backup_vars, compliance_vars, score_vars, id_vars, relay_vars, savings_vars,
       analysis_vars, cost_vars, race_vars, retention_vars,
       notify_vars >>

\* what the actions of one component leave unchanged
not_backup_vars ==
    << compliance_vars, score_vars, id_vars, relay_vars, savings_vars, analysis_vars,
       cost_vars, race_vars, retention_vars,
       notify_vars >>

not_compliance_vars ==
    << backup_vars, score_vars, id_vars, relay_vars, savings_vars, analysis_vars,
       cost_vars, race_vars, retention_vars,
       notify_vars >>

not_score_vars ==
    << backup_vars, compliance_vars, id_vars, relay_vars, savings_vars,
       analysis_vars, cost_vars, race_vars, retention_vars,
       notify_vars >>

not_id_vars ==
    << backup_vars, compliance_vars, score_vars, relay_vars, savings_vars,
       analysis_vars, cost_vars, race_vars, retention_vars,
       notify_vars >>

not_relay_vars ==
    << backup_vars, compliance_vars, score_vars, id_vars, savings_vars,
       analysis_vars, cost_vars, race_vars, retention_vars,
       notify_vars >>

not_savings_vars ==
    << backup_vars, compliance_vars, score_vars, id_vars, relay_vars, analysis_vars,
       cost_vars, race_vars, retention_vars,
       notify_vars >>

not_analysis_vars ==
    << backup_vars, compliance_vars, score_vars, id_vars, relay_vars, savings_vars,
       cost_vars, race_vars, retention_vars,
       notify_vars >>

not_cost_vars ==
    << backup_vars, compliance_vars, score_vars, id_vars, relay_vars, savings_vars,
       analysis_vars, race_vars, retention_vars,
       notify_vars >>

not_race_vars ==
    << backup_vars, compliance_vars, score_vars, id_vars, relay_vars, savings_vars,
       analysis_vars, cost_vars, retention_vars,
       notify_vars >>

not_retention_vars ==
    << backup_vars, compliance_vars, score_vars, id_vars, relay_vars, savings_vars,
       analysis_vars, cost_vars, race_vars, notify_vars >>

not_notify_vars ==
    << backup_vars, compliance_vars, score_vars, id_vars, relay_vars, savings_vars,
       analysis_vars, cost_vars, race_vars, retention_vars >>

\* ---- values ------------------------------------------------------------

\* an aware datetime as boto3 returns it, and datetime.replace(tzinfo=None)
AwareUTC(t) == [t |-> t, tzinfo |-> "UTC"]

Naive(t) == [t |-> t, tzinfo |-> "None"]

replace_tzinfo_none(dt) == [dt EXCEPT !.tzinfo = "None"]

\* datetime.utcnow(): a naive datetime
utcnow == Naive(now)

\* a < b on two naive datetimes
datetime_lt(a, b) == a.tzinfo = "None" /\ b.tzinfo = "None" /\ a.t < b.t

\* datetime.utcnow() - timedelta(days=retention_days), at the clock `time`
cutoff_date_at(time, retention_days) ==
    Naive(time - retention_days * SecondsPerDay * TicksPerSecond)

\* strftime('%Y-%m-%d-%H-%M'): the datetime to the minute
strftime_to_the_minute(dt) == ToString(dt.t \div (60 * TicksPerSecond))

\* strftime('%Y-%m-%d-%H-%M-%S'): the datetime to the second, as a string
strftime(dt) == ToString(dt.t \div TicksPerSecond)

AutomatedTag == [Key |-> "BackupType", Value |-> "Automated"]

ManualTag == [Key |-> "BackupType", Value |-> "Manual"]

\* identifiers are strings, modelled as sequences of tokens;
\* f"{id}-backup-{timestamp}"
backup_snapshot_id(source_id, timestamp) == source_id \o <<"-backup-", timestamp>>

\* '-backup-' in snapshot_id
contains_backup(snapshot_id) == \E i \in DOMAIN snapshot_id : snapshot_id[i] = "-backup-"

\* ---- the environment's choices ------------------------------------------

InstanceKinds == {"available", "stopped", "replica"}

\* the k-th DB instance of the account
Instance(k, kind) ==
    IF kind = "replica"
    THEN [DBInstanceIdentifier |-> <<"db", ToString(k)>>, DBInstanceStatus |-> "available",
          ReadReplicaSourceDBInstanceIdentifier |-> <<"db", "0">>]
    ELSE [DBInstanceIdentifier |-> <<"db", ToString(k)>>, DBInstanceStatus |-> kind]

InstanceLists ==
    UNION { { [k \in 1..n |-> Instance(k, kinds[k])] : kinds \in [1..n -> InstanceKinds] } :
            n \in 0..MaxInstances }

ClusterStatuses == {"available", "creating"}

ClusterLists ==
    UNION { { [k \in 1..n |-> [DBClusterIdentifier |-> <<"cluster", ToString(k)>>, Status |-> st[k]]] :
              st \in [1..n -> ClusterStatuses] } :
            n \in 0..MaxClusters }

\* creation times of the snapshots that existed before the run, around the
\* cutoff the run will compute: one second before StartTime - retention, at
\* it, and one tick after it
Cutoff0 == StartTime - RetentionTicks

SnapshotTimes == {Cutoff0 - TicksPerSecond, Cutoff0, Cutoff0 + 1}

SnapshotTagChoices == {"untagged", "manual", "automated"}

SnapshotAttrs == [tags : SnapshotTagChoices, named : BOOLEAN, time : SnapshotTimes]

OldSnapshotId(k, named) ==
    IF named THEN <<"old", ToString(k), "-backup-", "0">> ELSE <<"manual", ToString(k)>>

WithTags(snapshot, tags) ==
    IF tags = "untagged" THEN snapshot
    ELSE [key \in DOMAIN snapshot \cup {"TagList"} |->
            IF key = "TagList"
            THEN (IF tags = "automated" THEN <<AutomatedTag>> ELSE <<ManualTag>>)
            ELSE snapshot[key]]

OldSnapshot(id_key, k, a) ==
    WithTags([key \in {id_key, "SnapshotCreateTime"} |->
                IF key = id_key THEN OldSnapshotId(k, a.named) ELSE AwareUTC(a.time)],
             a.tags)

\* the lists of snapshots that may exist before the run
OldSnapshotLists(id_key, max) ==
    UNION { { [k \in 1..n |-> OldSnapshot(id_key, k, attrs[k])] :
              attrs \in [1..n -> SnapshotAttrs] } :
            n \in 0..max }

\* ---- the functions ------------------------------------------------------

\* the filter on the status alone: read replicas pass
eligible_instance_with_replicas(instance) == instance.DBInstanceStatus = "available"

\* get_rds_instances: the filter over response['DBInstances']
eligible_instance(instance) ==
    /\ instance.DBInstanceStatus = "available"
    /\ "ReadReplicaSourceDBInstanceIdentifier" \notin DOMAIN instance

\* get_rds_clusters: the filter over response['DBClusters']
eligible_cluster(cluster) == cluster.Status = "available"

\* dict.get(key): None is modelled as the empty identifier
GetId(d, key) == IF key \in DOMAIN d THEN d[key] ELSE <<>>

\* the marker test without the identifier's pattern part: any identifier passes
is_automated_backup_snapshot_any_name(snapshot) ==
    LET first_id    == GetId(snapshot, "DBSnapshotIdentifier")
        snapshot_id == IF first_id # <<>> THEN first_id
                       ELSE GetId(snapshot, "DBClusterSnapshotIdentifier")
    IN  snapshot_id # <<>>

is_automated_backup_snapshot(snapshot) ==
    LET tags_key    == IF "TagList" \in DOMAIN snapshot THEN "TagList" ELSE "Tags"
        tagged      == /\ tags_key \in DOMAIN snapshot
                       /\ \E i \in DOMAIN snapshot[tags_key] :
                            /\ snapshot[tags_key][i].Key = "BackupType"
                            /\ snapshot[tags_key][i].Value = "Automated"
        first_id    == GetId(snapshot, "DBSnapshotIdentifier")
        snapshot_id == IF first_id # <<>> THEN first_id
                       ELSE GetId(snapshot, "DBClusterSnapshotIdentifier")
    IN  tagged \/ (snapshot_id # <<>> /\ contains_backup(snapshot_id))

\* the condition without its age part: every marked snapshot is due
should_delete_any_age(snapshot, cutoff) == is_automated_backup_snapshot(snapshot)

\* the condition with <= in place of <
should_delete_inclusive(snapshot, cutoff) ==
    /\ is_automated_backup_snapshot(snapshot)
    /\ ~datetime_lt(cutoff, replace_tzinfo_none(snapshot.SnapshotCreateTime))

\* the condition of the if statements of cleanup_old_snapshots
should_delete(snapshot, cutoff) ==
    /\ is_automated_backup_snapshot(snapshot)
    /\ datetime_lt(replace_tzinfo_none(snapshot.SnapshotCreateTime), cutoff)

\* the Tags argument of create_db_snapshot / create_db_cluster_snapshot
backup_tags(source_key, source_id, timestamp) ==
    << AutomatedTag,
       [Key |-> "BackupDate", Value |-> timestamp],
       [Key |-> source_key, Value |-> source_id],
       [Key |-> "RetentionDate",
        Value |-> ToString((now + RetentionTicks) \div (SecondsPerDay * TicksPerSecond))] >>

\* a request, its argument, and whether the service carried it out (ok) or
\* raised
Request(op, arg, ok) == [op |-> op, arg |-> arg, ok |-> ok]

ErrorMsg(what, id) == [what |-> what, id |-> id]

\* a subject line that also counts the failed deletions of the cleanup
summary_subject_with_failed_deletions(results) ==
    LET total == Len(results.errors)
                 + Len(SelectSeq(results.cleanup_results, LAMBDA e : e.status = "failed"))
    IN  IF total > 0 THEN <<"Errors", total>> ELSE <<"Success">>

\* the subject line of send_notification (lines 306, 311-314)
summary_subject(results) ==
    IF Len(results.errors) > 0 THEN <<"Errors", Len(results.errors)>> ELSE <<"Success">>

\* ---- the handler ---------------------------------------------------------

\* the blocks with the cluster backups ahead of the instance backups
handler_steps_clusters_first == <<"get_clusters", "get_instances", "cleanup", "notify">>

\* the order of the handler's blocks (lines 51-83); each name is the
\* position at which the block starts
handler_steps == <<"get_instances", "get_clusters", "cleanup", "notify">>

\* the position after the block `step`
After(step) ==
    LET i == CHOOSE j \in DOMAIN handler_steps : handler_steps[j] = step
    IN  IF i < Len(handler_steps) THEN handler_steps[i + 1] ELSE "done"

\* a loop that stops at the first request that raises
after_iteration_break(ok, i, list, loop_pc, step) ==
    IF i = Len(list) \/ ~ok THEN After(step) ELSE loop_pc

\* a loop without try/except: the exception reaches the handler's except clause
after_iteration_unguarded(ok, i, list, loop_pc, step) ==
    IF ~ok THEN "fatal" ELSE IF i = Len(list) THEN After(step) ELSE loop_pc

\* handler lines 53-60 and 64-71: the try/except inside the for loop.  The
\* position after iteration i over list, whether the request succeeded
\* (ok) or raised: the loop goes on, and the block ends after the last item
after_iteration(ok, i, list, loop_pc, step) ==
    IF i = Len(list) THEN After(step) ELSE loop_pc

\* a cleanup loop without the try/except around the delete request: the
\* exception leaves cleanup_old_snapshots and the handler's except clause
\* (lines 77-80) goes on to the notification
after_delete_raised(ok, i, list, loop_pc, next_pc) ==
    IF ~ok THEN After("cleanup") ELSE IF i = Len(list) THEN next_pc ELSE loop_pc

\* cleanup_old_snapshots lines 236-252 and 258-274: the try/except inside the
\* for loop.  The position after iteration i over the enumerated list,
\* whether the delete request succeeded (ok) or raised: the loop goes on, and
\* the function goes to next_pc after the last snapshot
after_delete(ok, i, list, loop_pc, next_pc) ==
    IF i = Len(list) THEN next_pc ELSE loop_pc

\* send_notification without its try/except
send_notification_raises_unguarded(ok) == ~ok

\* send_notification lines 304, 347-348: an exception of sns.publish is
\* logged, never raised to the handler
send_notification_raises(ok) == FALSE

\* send_error_notification without its try/except
send_error_notification_raises_unguarded(ok) == ~ok

\* send_error_notification lines 354, 373-374: an exception of sns.publish
\* is logged, never raised to the except clause that called it
send_error_notification_raises(ok) == FALSE

NoResponse == [statusCode |-> 0]

\* what the caller gets when an exception leaves the handler
Unhandled == [errorType |-> "Exception"]

InitBackup ==
    /\ now = StartTime
    /\ rds_instances \in InstanceLists
    /\ rds_clusters \in ClusterLists
    /\ rds_snapshots = <<>>
    /\ rds_cluster_snapshots = <<>>
    /\ deleted_snapshots = {}
    /\ backup_pc = handler_steps[1]
    /\ idx = 0
    /\ db_instances = <<>>
    /\ db_clusters = <<>>
    /\ snapshots = <<>>
    /\ cutoff_date = Naive(0)
    /\ cleanup_results = <<>>
    /\ backup_results = [db_instances |-> <<>>, db_clusters |-> <<>>,
                         cleanup_results |-> <<>>, errors |-> <<>>]
    /\ error_msg = <<>>
    /\ requests = <<>>
    /\ sns_messages = <<>>
    /\ backup_response = NoResponse

\* the clock advances while the handler runs
Tick ==
    /\ backup_pc # "done"
    /\ now < StartTime + MaxTicks
    /\ now' = now + 1
    /\ UNCHANGED << rds_instances, rds_clusters, rds_snapshots, rds_cluster_snapshots,
                    deleted_snapshots, backup_pc, idx, db_instances, db_clusters,
                    snapshots, cutoff_date, cleanup_results, backup_results,
                    error_msg, requests, sns_messages, backup_response >>
    /\ UNCHANGED not_backup_vars

\* handler line 52: db_instances = get_rds_instances(); an exception of
\* describe_db_instances is re-raised and reaches the handler's except clause
GetRdsInstances ==
    /\ backup_pc = "get_instances"
    /\ \E ok \in BOOLEAN :
         /\ requests' = Append(requests, Request("describe_db_instances", <<>>, ok))
         /\ IF ok
            THEN /\ db_instances' = SelectSeq(rds_instances, eligible_instance)
                 /\ idx' = 1
                 /\ backup_pc' = IF db_instances' = <<>> THEN After("get_instances")
                                 ELSE "backup_instances"
                 /\ UNCHANGED error_msg
            ELSE /\ backup_pc' = "fatal"
                 /\ error_msg' = ErrorMsg("Database backup process failed",
                                          "describe_db_instances")
                 /\ UNCHANGED << db_instances, idx >>
    /\ UNCHANGED << now, rds_instances, rds_clusters, rds_snapshots,
                    rds_cluster_snapshots, deleted_snapshots, db_clusters, snapshots,
                    cutoff_date, cleanup_results, backup_results, sns_messages,
                    backup_response >>
    /\ UNCHANGED not_backup_vars

SnapshotIds(list, id_key) == { list[i][id_key] : i \in DOMAIN list }

\* handler lines 53-60: one iteration of the loop, backup_rds_instance(instance);
\* the service refuses an identifier that already exists
BackupRdsInstance ==
    /\ backup_pc = "backup_instances"
    /\ LET instance    == db_instances[idx]
           instance_id == instance.DBInstanceIdentifier
           timestamp   == strftime(utcnow)
           snapshot_id == backup_snapshot_id(instance_id, timestamp)
           tags        == backup_tags("SourceInstance", instance_id, timestamp)
       IN  \E accepted \in BOOLEAN :
             LET ok == accepted /\ snapshot_id \notin
                                     SnapshotIds(rds_snapshots, "DBSnapshotIdentifier")
             IN  /\ requests' = Append(requests, Request("create_db_snapshot",
                                    [DBSnapshotIdentifier |-> snapshot_id,
                                     DBInstanceIdentifier |-> instance_id,
                                     Tags |-> tags], ok))
                 /\ IF ok
                    THEN /\ rds_snapshots' = Append(rds_snapshots,
                                [DBSnapshotIdentifier |-> snapshot_id,
                                 SnapshotCreateTime |-> AwareUTC(now),
                                 TagList |-> tags])
                         /\ backup_results' = [backup_results EXCEPT !.db_instances =
                                Append(@, [instance_id |-> instance_id,
                                           snapshot_id |-> snapshot_id,
                                           snapshot_arn |-> <<"arn">> \o snapshot_id,
                                           status |-> "success",
                                           timestamp |-> timestamp])]
                    ELSE /\ backup_results' = [backup_results EXCEPT !.errors =
                                Append(@, ErrorMsg("Failed to backup instance", instance_id))]
                         /\ UNCHANGED rds_snapshots
                 /\ backup_pc' = after_iteration(ok, idx, db_instances,
                                                 "backup_instances", "get_instances")
    /\ idx' = idx + 1
    /\ UNCHANGED << now, rds_instances, rds_clusters, rds_cluster_snapshots,
                    deleted_snapshots, db_instances, db_clusters, snapshots,
                    cutoff_date, cleanup_results, error_msg, sns_messages,
                    backup_response >>
    /\ UNCHANGED not_backup_vars

\* handler line 63: db_clusters = get_rds_clusters()
GetRdsClusters ==
    /\ backup_pc = "get_clusters"
    /\ \E ok \in BOOLEAN :
         /\ requests' = Append(requests, Request("describe_db_clusters", <<>>, ok))
         /\ IF ok
            THEN /\ db_clusters' = SelectSeq(rds_clusters, eligible_cluster)
                 /\ idx' = 1
                 /\ backup_pc' = IF db_clusters' = <<>> THEN After("get_clusters")
                                 ELSE "backup_clusters"
                 /\ UNCHANGED error_msg
            ELSE /\ backup_pc' = "fatal"
                 /\ error_msg' = ErrorMsg("Database backup process failed",
                                          "describe_db_clusters")
                 /\ UNCHANGED << db_clusters, idx >>
    /\ UNCHANGED << now, rds_instances, rds_clusters, rds_snapshots,
                    rds_cluster_snapshots, deleted_snapshots, db_instances, snapshots,
                    cutoff_date, cleanup_results, backup_results, sns_messages,
                    backup_response >>
    /\ UNCHANGED not_backup_vars

\* handler lines 64-71: one iteration of the loop, backup_rds_cluster(cluster)
BackupRdsCluster ==
    /\ backup_pc = "backup_clusters"
    /\ LET cluster     == db_clusters[idx]
           cluster_id  == cluster.DBClusterIdentifier
           timestamp   == strftime(utcnow)
           snapshot_id == backup_snapshot_id(cluster_id, timestamp)
           tags        == backup_tags("SourceCluster", cluster_id, timestamp)
       IN  \E accepted \in BOOLEAN :
             LET ok == accepted /\ snapshot_id \notin
                         SnapshotIds(rds_cluster_snapshots, "DBClusterSnapshotIdentifier")
             IN  /\ requests' = Append(requests, Request("create_db_cluster_snapshot",
                                    [DBClusterSnapshotIdentifier |-> snapshot_id,
                                     DBClusterIdentifier |-> cluster_id,
                                     Tags |-> tags], ok))
                 /\ IF ok
                    THEN /\ rds_cluster_snapshots' = Append(rds_cluster_snapshots,
                                [DBClusterSnapshotIdentifier |-> snapshot_id,
                                 SnapshotCreateTime |-> AwareUTC(now),
                                 TagList |-> tags])
                         /\ backup_results' = [backup_results EXCEPT !.db_clusters =
                                Append(@, [cluster_id |-> cluster_id,
                                           snapshot_id |-> snapshot_id,
                                           snapshot_arn |-> <<"arn">> \o snapshot_id,
                                           status |-> "success",
                                           timestamp |-> timestamp])]
                    ELSE /\ backup_results' = [backup_results EXCEPT !.errors =
                                Append(@, ErrorMsg("Failed to backup cluster", cluster_id))]
                         /\ UNCHANGED rds_cluster_snapshots
                 /\ backup_pc' = after_iteration(ok, idx, db_clusters,
                                                 "backup_clusters", "get_clusters")
    /\ idx' = idx + 1
    /\ UNCHANGED << now, rds_instances, rds_clusters, rds_snapshots,
                    deleted_snapshots, db_instances, db_clusters, snapshots,
                    cutoff_date, cleanup_results, error_msg, sns_messages,
                    backup_response >>
    /\ UNCHANGED not_backup_vars

\* the handler's except clause around cleanup_old_snapshots (lines 77-80)
cleanup_failed(results) ==
    [results EXCEPT !.errors = Append(@, ErrorMsg("Failed to cleanup old snapshots", <<>>))]

\* cleanup_old_snapshots lines 227-233: cutoff_date and describe_db_snapshots.
\* The response lists the snapshots that existed before the invocation (the
\* environment's choice) and then those created since.
CleanupDescribeSnapshots ==
    /\ backup_pc = "cleanup"
    /\ cutoff_date' = cutoff_date_at(now, RETENTION_DAYS)
    /\ \E ok \in BOOLEAN :
         /\ requests' = Append(requests, Request("describe_db_snapshots", <<>>, ok))
         /\ IF ok
            THEN /\ \E old \in OldSnapshotLists("DBSnapshotIdentifier", MaxSnapshots) :
                       snapshots' = old \o rds_snapshots
                 /\ idx' = 1
                 /\ backup_pc' = IF snapshots' = <<>> THEN "cleanup_clusters"
                                 ELSE "cleanup_instance_snapshots"
                 /\ UNCHANGED backup_results
            ELSE /\ backup_results' = cleanup_failed(backup_results)
                 /\ backup_pc' = After("cleanup")
                 /\ UNCHANGED << snapshots, idx >>
    /\ cleanup_results' = <<>>
    /\ UNCHANGED << now, rds_instances, rds_clusters, rds_snapshots,
                    rds_cluster_snapshots, deleted_snapshots, db_instances,
                    db_clusters, error_msg, sns_messages, backup_response >>
    /\ UNCHANGED not_backup_vars

Remove(list, id_key, id) == SelectSeq(list, LAMBDA sn : sn[id_key] # id)

\* cleanup_old_snapshots lines 234-252: one iteration over response['DBSnapshots'];
\* the service refuses to delete a snapshot that is already deleted
CleanupInstanceSnapshot ==
    /\ backup_pc = "cleanup_instance_snapshots"
    /\ LET snapshot == snapshots[idx]
           id       == snapshot.DBSnapshotIdentifier
       IN  IF should_delete(snapshot, cutoff_date)
           THEN \E accepted \in BOOLEAN :
                  LET ok == accepted /\ <<"instance_snapshot", id>> \notin deleted_snapshots
                  IN  /\ requests' = Append(requests,
                                            Request("delete_db_snapshot", snapshot, ok))
                      /\ IF ok
                         THEN /\ deleted_snapshots' =
                                    deleted_snapshots \cup {<<"instance_snapshot", id>>}
                              /\ rds_snapshots' =
                                    Remove(rds_snapshots, "DBSnapshotIdentifier", id)
                              /\ cleanup_results' = Append(cleanup_results,
                                    [type |-> "instance_snapshot", snapshot_id |-> id,
                                     status |-> "deleted",
                                     create_time |-> snapshot.SnapshotCreateTime])
                         ELSE /\ cleanup_results' = Append(cleanup_results,
                                    [type |-> "instance_snapshot", snapshot_id |-> id,
                                     status |-> "failed", error |-> "error"])
                              /\ UNCHANGED << deleted_snapshots, rds_snapshots >>
                      /\ backup_pc' = after_delete(ok, idx, snapshots,
                                          "cleanup_instance_snapshots", "cleanup_clusters")
           ELSE /\ backup_pc' = after_delete(TRUE, idx, snapshots,
                                    "cleanup_instance_snapshots", "cleanup_clusters")
                /\ UNCHANGED << requests, deleted_snapshots, rds_snapshots,
                                cleanup_results >>
    /\ idx' = idx + 1
    /\ UNCHANGED << now, rds_instances, rds_clusters, rds_cluster_snapshots,
                    db_instances, db_clusters, snapshots, cutoff_date, backup_results,
                    error_msg, sns_messages, backup_response >>
    /\ UNCHANGED not_backup_vars

\* cleanup_old_snapshots line 255: describe_db_cluster_snapshots; its exception
\* leaves the function (lines 279-281) and the local cleanup_results is lost
CleanupDescribeClusterSnapshots ==
    /\ backup_pc = "cleanup_clusters"
    /\ \E ok \in BOOLEAN :
         /\ requests' = Append(requests, Request("describe_db_cluster_snapshots", <<>>, ok))
         /\ IF ok
            THEN /\ \E old \in OldSnapshotLists("DBClusterSnapshotIdentifier", MaxClusterSnapshots) :
                       snapshots' = old \o rds_cluster_snapshots
                 /\ idx' = 1
                 /\ backup_pc' = IF snapshots' = <<>> THEN "cleanup_return"
                                 ELSE "cleanup_cluster_snapshots"
                 /\ UNCHANGED << backup_results, cleanup_results >>
            ELSE /\ backup_results' = cleanup_failed(backup_results)
                 /\ backup_pc' = After("cleanup")
                 /\ snapshots' = <<>>
                 /\ cleanup_results' = <<>>
                 /\ UNCHANGED idx
    /\ UNCHANGED << now, rds_instances, rds_clusters, rds_snapshots,
                    rds_cluster_snapshots, deleted_snapshots, db_instances,
                    db_clusters, cutoff_date, error_msg, sns_messages,
                    backup_response >>
    /\ UNCHANGED not_backup_vars

\* cleanup_old_snapshots lines 256-274: one iteration over
\* response['DBClusterSnapshots']
CleanupClusterSnapshot ==
    /\ backup_pc = "cleanup_cluster_snapshots"
    /\ LET snapshot == snapshots[idx]
           id       == snapshot.DBClusterSnapshotIdentifier
       IN  IF should_delete(snapshot, cutoff_date)
           THEN \E accepted \in BOOLEAN :
                  LET ok == accepted /\ <<"cluster_snapshot", id>> \notin deleted_snapshots
                  IN  /\ requests' = Append(requests,
                                            Request("delete_db_cluster_snapshot", snapshot, ok))
                      /\ IF ok
                         THEN /\ deleted_snapshots' =
                                    deleted_snapshots \cup {<<"cluster_snapshot", id>>}
                              /\ rds_cluster_snapshots' =
                                    Remove(rds_cluster_snapshots,
                                           "DBClusterSnapshotIdentifier", id)
                              /\ cleanup_results' = Append(cleanup_results,
                                    [type |-> "cluster_snapshot", snapshot_id |-> id,
                                     status |-> "deleted",
                                     create_time |-> snapshot.SnapshotCreateTime])
                         ELSE /\ cleanup_results' = Append(cleanup_results,
                                    [type |-> "cluster_snapshot", snapshot_id |-> id,
                                     status |-> "failed", error |-> "error"])
                              /\ UNCHANGED << deleted_snapshots, rds_cluster_snapshots >>
                      /\ backup_pc' = after_delete(ok, idx, snapshots,
                                          "cleanup_cluster_snapshots", "cleanup_return")
           ELSE /\ backup_pc' = after_delete(TRUE, idx, snapshots,
                                    "cleanup_cluster_snapshots", "cleanup_return")
                /\ UNCHANGED << requests, deleted_snapshots, rds_cluster_snapshots,
                                cleanup_results >>
    /\ idx' = idx + 1
    /\ UNCHANGED << now, rds_instances, rds_clusters, rds_snapshots,
                    db_instances, db_clusters, snapshots, cutoff_date, backup_results,
                    error_msg, sns_messages, backup_response >>
    /\ UNCHANGED not_backup_vars

\* cleanup_old_snapshots line 277 and handler line 76:
\* backup_results['cleanup_results'] = cleanup_old_snapshots()
CleanupReturn ==
    /\ backup_pc = "cleanup_return"
    /\ backup_results' = [backup_results EXCEPT !.cleanup_results = cleanup_results]
    /\ cleanup_results' = <<>>
    /\ snapshots' = <<>>
    /\ backup_pc' = After("cleanup")
    /\ UNCHANGED << now, rds_instances, rds_clusters, rds_snapshots,
                    rds_cluster_snapshots, deleted_snapshots, idx, db_instances,
                    db_clusters, cutoff_date, error_msg, requests, sns_messages,
                    backup_response >>
    /\ UNCHANGED not_backup_vars

\* handler lines 83-89: send_notification(backup_results) publishes the
\* summary; then the handler returns 200
SendNotification ==
    /\ backup_pc = "notify"
    /\ LET message == [kind |-> "summary", subject |-> summary_subject(backup_results),
                       total_backups |-> Len(backup_results.db_instances)
                                         + Len(backup_results.db_clusters),
                       total_errors  |-> Len(backup_results.errors),
                       cleanup       |-> backup_results.cleanup_results]
       IN  \E ok \in BOOLEAN :
             /\ requests' = Append(requests, Request("publish", message, ok))
             /\ sns_messages' = IF ok THEN Append(sns_messages, message) ELSE sns_messages
             /\ IF send_notification_raises(ok)
                THEN /\ backup_pc' = "fatal"
                     /\ error_msg' = ErrorMsg("Database backup process failed", "publish")
                     /\ UNCHANGED backup_response
                ELSE /\ backup_pc' = After("notify")
                     /\ backup_response' = [statusCode |-> 200, body |-> backup_results]
                     /\ UNCHANGED error_msg
    /\ UNCHANGED << now, rds_instances, rds_clusters, rds_snapshots,
                    rds_cluster_snapshots, deleted_snapshots, idx, db_instances,
                    db_clusters, snapshots, cutoff_date, cleanup_results,
                    backup_results >>
    /\ UNCHANGED not_backup_vars

\* handler lines 91-101: the except clause; send_error_notification publishes
\* and swallows an exception of sns.publish; then the handler returns 500
SendErrorNotification ==
    /\ backup_pc = "fatal"
    /\ LET message == [kind |-> "error", subject |-> <<"Failed">>, error |-> error_msg]
       IN  \E ok \in BOOLEAN :
             /\ requests' = Append(requests, Request("publish", message, ok))
             /\ sns_messages' = IF ok THEN Append(sns_messages, message) ELSE sns_messages
             /\ backup_response' = IF send_error_notification_raises(ok) THEN Unhandled
                                   ELSE [statusCode |-> 500, body |-> [error |-> error_msg]]
    /\ backup_pc' = "done"
    /\ UNCHANGED << now, rds_instances, rds_clusters, rds_snapshots,
                    rds_cluster_snapshots, deleted_snapshots, idx, db_instances,
                    db_clusters, snapshots, cutoff_date, cleanup_results,
                    backup_results, error_msg >>
    /\ UNCHANGED not_backup_vars

NextBackup ==
    \/ Tick
    \/ GetRdsInstances
    \/ BackupRdsInstance
    \/ GetRdsClusters
    \/ BackupRdsCluster
    \/ CleanupDescribeSnapshots
    \/ CleanupInstanceSnapshot
    \/ CleanupDescribeClusterSnapshots
    \/ CleanupClusterSnapshot
    \/ CleanupReturn
    \/ SendNotification
    \/ SendErrorNotification

(***************************************************************************)
(* Two invocations of the Backup Rotator that overlap.  They share the     *)
(* account, the service's snapshots and the clock; each has its own local  *)
(* variables.  The service is in order: the only requests it refuses are a *)
(* create for an identifier that exists and a delete of a snapshot that is *)
(* gone.  A source kind is "instance" or "cluster".                        *)
(***************************************************************************)
MaxRaceTicks == 2
MaxRaceSources == 1
MaxRaceSnapshots == 1

Runs == {1, 2}
SourceKinds == {"instance", "cluster"}

IdKey(kind) == IF kind = "instance" THEN "DBInstanceIdentifier" ELSE "DBClusterIdentifier"
SnapshotIdKey(kind) ==
    IF kind = "instance" THEN "DBSnapshotIdentifier" ELSE "DBClusterSnapshotIdentifier"
SourceTag(kind) == IF kind = "instance" THEN "SourceInstance" ELSE "SourceCluster"
ResultIdKey(kind) == IF kind = "instance" THEN "instance_id" ELSE "cluster_id"
ResultsKey(kind) == IF kind = "instance" THEN "db_instances" ELSE "db_clusters"
CleanupType(kind) == IF kind = "instance" THEN "instance_snapshot" ELSE "cluster_snapshot"
FailText(kind) ==
    IF kind = "instance" THEN "Failed to backup instance" ELSE "Failed to backup cluster"

\* the positions of the handler for a kind: its enumeration, its backup loop,
\* its snapshot enumeration in cleanup_old_snapshots, and its delete loop
GetPc(kind) == IF kind = "instance" THEN "get_instances" ELSE "get_clusters"
LoopPc(kind) == IF kind = "instance" THEN "backup_instances" ELSE "backup_clusters"
CleanupPc(kind) == IF kind = "instance" THEN "cleanup" ELSE "cleanup_clusters"
CleanupLoopPc(kind) ==
    IF kind = "instance" THEN "cleanup_instance_snapshots" ELSE "cleanup_cluster_snapshots"
AfterCleanupLoop(kind) == IF kind = "instance" THEN CleanupPc("cluster") ELSE "cleanup_return"

eligible(kind, source) ==
    IF kind = "instance" THEN eligible_instance(source) ELSE eligible_cluster(source)

\* the Tags argument of the create requests at the time `time`
backup_tags_at(time, source_key, source_id, timestamp) ==
    << AutomatedTag,
       [Key |-> "BackupDate", Value |-> timestamp],
       [Key |-> source_key, Value |-> source_id],
       [Key |-> "RetentionDate",
        Value |-> ToString((time + RetentionTicks) \div (SecondsPerDay * TicksPerSecond))] >>

\* a delete that raises, with nothing appended
on_delete_failure_unrecorded(results, kind, id) == results

\* cleanup_old_snapshots lines 245-252 and 267-274: the except clause of a
\* delete appends a 'failed' entry
on_delete_failure(results, kind, id) ==
    Append(results, [type |-> CleanupType(kind), snapshot_id |-> id,
                     status |-> "failed", error |-> "error"])

StartRun ==
    [pc |-> handler_steps[1], idx |-> 0,
     db |-> [instance |-> <<>>, cluster |-> <<>>],
     snapshots |-> <<>>, cutoff_date |-> Naive(0), cleanup_results |-> <<>>,
     backup_results |-> [db_instances |-> <<>>, db_clusters |-> <<>>,
                         cleanup_results |-> <<>>, errors |-> <<>>],
     response |-> NoResponse]

\* the account's available sources, and expired snapshots with the tag and
\* the name of an automated backup
RaceInstanceLists ==
    { l \in InstanceLists : Len(l) <= MaxRaceSources /\ \A i \in DOMAIN l : eligible_instance(l[i]) }

RaceClusterLists ==
    { l \in ClusterLists : Len(l) <= MaxRaceSources /\ \A i \in DOMAIN l : eligible_cluster(l[i]) }

RaceSnapshotLists(kind) ==
    { l \in OldSnapshotLists(SnapshotIdKey(kind), MaxRaceSnapshots) :
        \A i \in DOMAIN l : /\ should_delete(l[i], Naive(Cutoff0))
                             /\ "TagList" \in DOMAIN l[i]
                             /\ contains_backup(l[i][SnapshotIdKey(kind)]) }

InitRace ==
    /\ race_now = StartTime
    /\ \E instances \in RaceInstanceLists, clusters \in RaceClusterLists :
         race_account = [instance |-> instances, cluster |-> clusters]
    /\ \E snaps \in RaceSnapshotLists("instance"), cluster_snaps \in RaceSnapshotLists("cluster") :
         service = [instance |-> snaps, cluster |-> cluster_snaps]
    /\ runs = [r \in Runs |-> StartRun]
    /\ lost = [r \in Runs |-> {}]
    /\ race_messages = {}

\* the clock advances while an invocation runs
RaceTick ==
    /\ \E r \in Runs : runs[r].pc # "done"
    /\ race_now < StartTime + MaxRaceTicks
    /\ race_now' = race_now + 1
    /\ UNCHANGED << race_account, service, runs, lost, race_messages >>
    /\ UNCHANGED not_race_vars

\* handler lines 52 and 63: get_rds_instances() / get_rds_clusters()
RunGetSources(r, kind) ==
    /\ runs[r].pc = GetPc(kind)
    /\ LET list == SelectSeq(race_account[kind], LAMBDA source : eligible(kind, source))
       IN  runs' = [runs EXCEPT ![r].db[kind] = list,
                                ![r].idx = 1,
                                ![r].pc = IF list = <<>> THEN After(GetPc(kind))
                                          ELSE LoopPc(kind)]
    /\ UNCHANGED << race_now, race_account, service, lost, race_messages >>
    /\ UNCHANGED not_race_vars

\* handler lines 53-60 and 64-71: one iteration of a backup loop; the
\* service refuses an identifier that already exists
RunBackupSource(r, kind) ==
    /\ runs[r].pc = LoopPc(kind)
    /\ LET run         == runs[r]
           list        == run.db[kind]
           source_id   == list[run.idx][IdKey(kind)]
           timestamp   == strftime(Naive(race_now))
           snapshot_id == backup_snapshot_id(source_id, timestamp)
           tags        == backup_tags_at(race_now, SourceTag(kind), source_id, timestamp)
           ok          == snapshot_id \notin SnapshotIds(service[kind], SnapshotIdKey(kind))
           next_pc     == after_iteration(ok, run.idx, list, LoopPc(kind), GetPc(kind))
       IN  IF ok
           THEN /\ service' = [service EXCEPT ![kind] =
                       Append(@, (SnapshotIdKey(kind) :> snapshot_id)
                                 @@ [SnapshotCreateTime |-> AwareUTC(race_now),
                                     TagList |-> tags])]
                /\ runs' = [runs EXCEPT
                       ![r].backup_results[ResultsKey(kind)] =
                           Append(@, (ResultIdKey(kind) :> source_id)
                                     @@ [snapshot_id |-> snapshot_id,
                                         snapshot_arn |-> <<"arn">> \o snapshot_id,
                                         status |-> "success",
                                         timestamp |-> timestamp]),
                       ![r].idx = @ + 1,
                       ![r].pc = next_pc]
                /\ UNCHANGED lost
           ELSE /\ runs' = [runs EXCEPT
                       ![r].backup_results.errors =
                           Append(@, ErrorMsg(FailText(kind), source_id)),
                       ![r].idx = @ + 1,
                       ![r].pc = next_pc]
                /\ lost' = [lost EXCEPT ![r] =
                       @ \cup {[op |-> "create", kind |-> kind, id |-> source_id]}]
                /\ UNCHANGED service
    /\ UNCHANGED << race_now, race_account, race_messages >>
    /\ UNCHANGED not_race_vars

\* cleanup_old_snapshots lines 227-233 and 255: cutoff_date (before the first
\* request) and the snapshots the service holds at the time of the request
RunDescribeSnapshots(r, kind) ==
    /\ runs[r].pc = CleanupPc(kind)
    /\ runs' = [runs EXCEPT
           ![r].snapshots = service[kind],
           ![r].idx = 1,
           ![r].cutoff_date = IF kind = "instance" THEN Naive(race_now - RetentionTicks) ELSE @,
           ![r].cleanup_results = IF kind = "instance" THEN <<>> ELSE @,
           ![r].pc = IF service[kind] = <<>> THEN AfterCleanupLoop(kind)
                     ELSE CleanupLoopPc(kind)]
    /\ UNCHANGED << race_now, race_account, service, lost, race_messages >>
    /\ UNCHANGED not_race_vars

\* cleanup_old_snapshots lines 234-252 and 256-274: one iteration of a delete
\* loop; the service refuses to delete a snapshot it no longer holds
RunCleanupSnapshot(r, kind) ==
    /\ runs[r].pc = CleanupLoopPc(kind)
    /\ LET run      == runs[r]
           snapshot == run.snapshots[run.idx]
           id       == snapshot[SnapshotIdKey(kind)]
           next_pc  == IF run.idx = Len(run.snapshots) THEN AfterCleanupLoop(kind)
                       ELSE CleanupLoopPc(kind)
           ok       == id \in SnapshotIds(service[kind], SnapshotIdKey(kind))
       IN  IF ~should_delete(snapshot, run.cutoff_date)
           THEN /\ runs' = [runs EXCEPT ![r].idx = @ + 1, ![r].pc = next_pc]
                /\ UNCHANGED << service, lost >>
           ELSE IF ok
           THEN /\ service' = [service EXCEPT ![kind] = Remove(@, SnapshotIdKey(kind), id)]
                /\ runs' = [runs EXCEPT
                       ![r].cleanup_results =
                           Append(@, [type |-> CleanupType(kind), snapshot_id |-> id,
                                      status |-> "deleted",
                                      create_time |-> snapshot.SnapshotCreateTime]),
                       ![r].idx = @ + 1,
                       ![r].pc = next_pc]
                /\ UNCHANGED lost
           ELSE /\ runs' = [runs EXCEPT
                       ![r].cleanup_results = on_delete_failure(@, kind, id),
                       ![r].idx = @ + 1,
                       ![r].pc = next_pc]
                /\ lost' = [lost EXCEPT ![r] =
                       @ \cup {[op |-> "delete", kind |-> kind, id |-> id]}]
                /\ UNCHANGED service
    /\ UNCHANGED << race_now, race_account, race_messages >>
    /\ UNCHANGED not_race_vars

\* cleanup_old_snapshots line 277 and handler line 76
RunCleanupReturn(r) ==
    /\ runs[r].pc = "cleanup_return"
    /\ runs' = [runs EXCEPT
           ![r].backup_results.cleanup_results = runs[r].cleanup_results,
           ![r].cleanup_results = <<>>,
           ![r].snapshots = <<>>,
           ![r].pc = After("cleanup")]
    /\ UNCHANGED << race_now, race_account, service, lost, race_messages >>
    /\ UNCHANGED not_race_vars

\* handler lines 83-89: the summary is published and the handler returns 200
RunSendNotification(r) ==
    /\ runs[r].pc = "notify"
    /\ race_messages' = race_messages \cup
           {[run |-> r, subject |-> summary_subject(runs[r].backup_results)]}
    /\ runs' = [runs EXCEPT
           ![r].response = [statusCode |-> 200, body |-> runs[r].backup_results],
           ![r].pc = After("notify")]
    /\ UNCHANGED << race_now, race_account, service, lost >>
    /\ UNCHANGED not_race_vars

NextRace ==
    \/ RaceTick
    \/ \E r \in Runs, kind \in SourceKinds :
         \/ RunGetSources(r, kind)
         \/ RunBackupSource(r, kind)
         \/ RunDescribeSnapshots(r, kind)
         \/ RunCleanupSnapshot(r, kind)
    \/ \E r \in Runs :
         \/ RunCleanupReturn(r)
         \/ RunSendNotification(r)

(***************************************************************************)
(* The snapshot identifier of backup_rds_instance and backup_rds_cluster   *)
(* (lines 151-153 and 189-191), computed for two backups.                  *)
(***************************************************************************)
MaxIdTicks == 4

\* source identifiers: two plain ones, and one that has the form of a
\* snapshot identifier (an instance restored under its snapshot's name)
SourceIds ==
    { <<"db", "1">>, <<"db", "2">>,
      <<"db", "1", "-backup-", ToString(StartTime \div TicksPerSecond)>> }

IdTimes == { StartTime + k : k \in 0..MaxIdTicks }

NoIds == [returned |-> FALSE, first |-> <<>>, second |-> <<>>]

InitSnapshotId ==
    /\ id_args \in [first : [source : SourceIds, time : IdTimes],
                     second : [source : SourceIds, time : IdTimes]]
    /\ id_result = NoIds

\* snapshot_id = f"{instance_id}-backup-{timestamp}" with timestamp =
\* datetime.utcnow().strftime('%Y-%m-%d-%H-%M-%S'), at the clock `time`
snapshot_id_at(source, time) == backup_snapshot_id(source, strftime(Naive(time)))

ComputeSnapshotIds ==
    /\ ~id_result.returned
    /\ id_result' = [returned |-> TRUE,
                     first |-> snapshot_id_at(id_args.first.source, id_args.first.time),
                     second |-> snapshot_id_at(id_args.second.source, id_args.second.time)]
    /\ UNCHANGED id_args
    /\ UNCHANGED not_id_vars

NextSnapshotId == ComputeSnapshotIds

(***************************************************************************)
(* A snapshot a run created, and the cleanup of the same run.  The run     *)
(* sends the create request at the clock `created` and computes its cutoff *)
(* at the clock `now`, at most MaxRunSeconds later (the execution-time     *)
(* limit of the platform); RETENTION_DAYS is what the environment sets.    *)
(***************************************************************************)
MaxRetentionDays == 2

MaxRunSeconds == 900

RetentionChoices == 0..MaxRetentionDays

\* the clock of the create request, in ticks after the start of the run
CreateOffsets == {0, 1, TicksPerSecond}

\* the ticks from the create request to the cleanup
ElapsedTicks == {0, 1, TicksPerSecond, MaxRunSeconds * TicksPerSecond}

RetentionCalls ==
    [retention_days : RetentionChoices,
     kind           : SourceKinds,
     created        : { StartTime + k : k \in CreateOffsets },
     elapsed        : ElapsedTicks,
     tags_listed    : BOOLEAN]

NoRetentionCall ==
    [retention_days |-> RETENTION_DAYS, kind |-> "instance", created |-> StartTime,
     elapsed |-> 0, tags_listed |-> FALSE, pc |-> "idle", due |-> FALSE]

InitRetention ==
    \E c \in RetentionCalls :
       retention_call = [retention_days |-> c.retention_days, kind |-> c.kind,
                         created |-> c.created, elapsed |-> c.elapsed,
                         tags_listed |-> c.tags_listed, pc |-> "cleanup", due |-> FALSE]

\* the snapshot of backup_rds_instance / backup_rds_cluster (lines 152-166,
\* 190-204) as the enumeration of the cleanup lists it
created_snapshot(kind, time, tags_listed) ==
    LET id_key    == SnapshotIdKey(kind)
        timestamp == strftime(Naive(time))
        id        == backup_snapshot_id(<<"db", "1">>, timestamp)
        listed    == [key \in {id_key, "SnapshotCreateTime"} |->
                        IF key = id_key THEN id ELSE AwareUTC(time)]
    IN  IF tags_listed THEN WithTags(listed, "automated") ELSE listed

\* cleanup_old_snapshots lines 229, 235 and 257 on that snapshot
CleanupOwnSnapshot ==
    /\ retention_call.pc = "cleanup"
    /\ LET c        == retention_call
           snapshot == created_snapshot(c.kind, c.created, c.tags_listed)
           cutoff   == cutoff_date_at(c.created + c.elapsed, c.retention_days)
       IN  retention_call' = [c EXCEPT !.pc = "returned",
                                       !.due = should_delete(snapshot, cutoff)]
    /\ UNCHANGED not_retention_vars

NextRetention == CleanupOwnSnapshot

(***************************************************************************)
(* Compliance Scorer (compliance_checker.py): the checks and the handler.  *)
(*                                                                         *)
(* The account's resources do not change during one invocation.  A check   *)
(* calls its AWS APIs in order; any of the calls may raise.                *)
(***************************************************************************)
MaxRules == 1

MaxReservations == 1

MaxBuckets == 1

MaxSecurityGroups == 1

MaxDbInstances == 1

MaxVolumes == 1

\* the number of checks of one invocation whose AWS calls raise
MaxFailures == 1

PROJECT_NAME == "epic"

ENVIRONMENT == "prod"

required_tags == <<"Project", "Environment", "ManagedBy">>

\* ---- values ------------------------------------------------------------

\* {} and dict.get(key, default)
EmptyDict == <<>>

Get(d, key, default) == IF key \in DOMAIN d THEN d[key] ELSE default

Range(seq) == { seq[i] : i \in DOMAIN seq }

\* for x in list: acc = Op(acc, x)
FoldLeft(Op(_, _), base, list) ==
    LET f[i \in 0..Len(list)] == IF i = 0 THEN base ELSE Op(f[i - 1], list[i])
    IN  f[Len(list)]

\* {tag['Key']: tag['Value'] for tag in tags}: its keys, and its .get(key, default)
dict_keys(tags) == { tags[i].Key : i \in DOMAIN tags }

dict_get(tags, key, default) ==
    LET at == { i \in DOMAIN tags : tags[i].Key = key }
    IN  IF at = {} THEN default
        ELSE tags[CHOOSE i \in at : \A j \in at : j <= i].Value

\* str.lower() on the tag values of the accounts
lower(s) ==
    CASE s = "Private"  -> "private"
      [] s = "Database" -> "database"
      [] OTHER          -> s

\* PROJECT_NAME in bucket_name: names are sequences of tokens
contains_project(bucket_name) == \E i \in DOMAIN bucket_name : bucket_name[i] = PROJECT_NAME

\* ---- the environment's choices ------------------------------------------

Tag(key, value) == [Key |-> key, Value |-> value]

RequiredTagList ==
    << Tag("Project", PROJECT_NAME), Tag("Environment", ENVIRONMENT),
       Tag("ManagedBy", "terraform") >>

ResourceKinds == {"compliant", "violating"}

\* the lists of at most max resources, the k-th being Make(k, kind)
ListsOf(Make(_, _), max) ==
    UNION { { [k \in 1..n |-> Make(k, kinds[k])] : kinds \in [1..n -> ResourceKinds] } :
            n \in 0..max }

ConfigRule(k, kind) ==
    [ConfigRuleName |-> <<"rule", ToString(k)>>,
     Compliance |-> [ComplianceType |-> IF kind = "compliant" THEN "COMPLIANT"
                                        ELSE "NON_COMPLIANT"]]

\* a running instance: with the required tags and no public address, or
\* untagged with a public address in a private subnet
Ec2Instance(k, kind) ==
    IF kind = "compliant"
    THEN [InstanceId |-> <<"i", ToString(k)>>, State |-> [Name |-> "running"],
          Tags |-> RequiredTagList]
    ELSE [InstanceId |-> <<"i", ToString(k)>>, State |-> [Name |-> "running"],
          Tags |-> <<Tag("SubnetType", "Private")>>,
          PublicIpAddress |-> "203.0.113.10"]

Reservation(k, kind) == [Instances |-> <<Ec2Instance(k, kind)>>]

\* a bucket of the project with what get_bucket_tagging, get_public_access_block
\* and get_bucket_encryption return for it; a key that is absent stands for the
\* API's NoSuch... exception
Bucket(k, kind) ==
    IF kind = "compliant"
    THEN [Name |-> <<PROJECT_NAME, "-bucket-", ToString(k)>>,
          TagSet |-> RequiredTagList,
          PublicAccessBlockConfiguration |->
              [BlockPublicAcls |-> TRUE, IgnorePublicAcls |-> TRUE,
               BlockPublicPolicy |-> TRUE, RestrictPublicBuckets |-> TRUE],
          ServerSideEncryptionConfiguration |-> "AES256"]
    ELSE [Name |-> <<PROJECT_NAME, "-bucket-", ToString(k)>>]

\* a group open to the world on port 443, or on port 22
SecurityGroup(k, kind) ==
    [GroupId |-> <<"sg", ToString(k)>>, GroupName |-> <<"group", ToString(k)>>,
     IpPermissions |-> << [FromPort |-> IF kind = "compliant" THEN 443 ELSE 22,
                           IpProtocol |-> "tcp",
                           IpRanges |-> <<[CidrIp |-> "0.0.0.0/0"]>>] >>,
     IpPermissionsEgress |-> <<>>]

DbInstance(k, kind) ==
    IF kind = "compliant"
    THEN [DBInstanceIdentifier |-> <<"db", ToString(k)>>, StorageEncrypted |-> TRUE,
          PubliclyAccessible |-> FALSE]
    ELSE [DBInstanceIdentifier |-> <<"db", ToString(k)>>, PubliclyAccessible |-> TRUE]

Volume(k, kind) ==
    IF kind = "compliant"
    THEN [VolumeId |-> <<"vol", ToString(k)>>, Encrypted |-> TRUE]
    ELSE [VolumeId |-> <<"vol", ToString(k)>>]

\* what the describe/list calls of one invocation return
Accounts ==
    [ComplianceByConfigRules : ListsOf(ConfigRule, MaxRules),
     Reservations            : ListsOf(Reservation, MaxReservations),
     Buckets                 : ListsOf(Bucket, MaxBuckets),
     SecurityGroups          : ListsOf(SecurityGroup, MaxSecurityGroups),
     DBInstances             : ListsOf(DbInstance, MaxDbInstances),
     Volumes                 : ListsOf(Volume, MaxVolumes)]

EmptyAccount ==
    [ComplianceByConfigRules |-> <<>>, Reservations |-> <<>>, Buckets |-> <<>>,
     SecurityGroups |-> <<>>, DBInstances |-> <<>>, Volumes |-> <<>>]

\* ---- the functions ------------------------------------------------------

\* an except clause that returns the report built so far
except_return_partial(zero_report, report) == report

\* the except clauses of the six fetches (lines 128-130, 207-209, 265-267,
\* 333-335, 380-382, 434-436): the exception is logged and a fresh all-zero
\* dict is returned, whatever the report held when the call raised
except_return(zero_report, report) == zero_report

config_zero ==
    [total_rules |-> 0, compliant_rules |-> 0, non_compliant_rules |-> 0,
     rules_detail |-> EmptyDict]

config_rule(status, rule_compliance) ==
    LET rule_name  == rule_compliance.ConfigRuleName
        compliance == rule_compliance.Compliance
        detail     == [status |-> compliance.ComplianceType,
                       last_evaluated |-> Get(compliance, "ComplianceContributorCount",
                                              EmptyDict)]
        counted    == [status EXCEPT !.total_rules = @ + 1,
                                     !.rules_detail = (rule_name :> detail) @@ @]
    IN  IF compliance.ComplianceType = "COMPLIANT"
        THEN [counted EXCEPT !.compliant_rules = @ + 1]
        ELSE [counted EXCEPT !.non_compliant_rules = @ + 1]

\* fail = 1: describe_compliance_by_config_rule raises; 0: no call raises
get_config_rules_compliance(acct, fail) ==
    IF fail = 1 THEN except_return(config_zero, config_zero)
    ELSE FoldLeft(config_rule, config_zero, acct.ComplianceByConfigRules)

tagging_zero == [total_resources |-> 0, compliant_resources |-> 0, violations |-> <<>>]

missing_tags(tags) == SelectSeq(required_tags, LAMBDA tag : tag \notin dict_keys(tags))

\* for reservation in Reservations: for instance in reservation['Instances']
instances_of(reservations) ==
    FoldLeft(LAMBDA list, reservation : list \o reservation.Instances, <<>>, reservations)

tagging_instance(report, instance) ==
    IF instance.State.Name \in {"running", "stopped"}
    THEN LET missing == missing_tags(Get(instance, "Tags", <<>>))
         IN  IF missing = <<>>
             THEN [report EXCEPT !.total_resources = @ + 1,
                                 !.compliant_resources = @ + 1]
             ELSE [report EXCEPT !.total_resources = @ + 1,
                                 !.violations = Append(@,
                                     [resource_type |-> "EC2 Instance",
                                      resource_id |-> instance.InstanceId,
                                      missing_tags |-> missing])]
    ELSE report

tagging_bucket(report, bucket) ==
    IF contains_project(bucket.Name)
    THEN LET missing == IF "TagSet" \in DOMAIN bucket THEN missing_tags(bucket.TagSet)
                        ELSE required_tags
         IN  IF missing = <<>>
             THEN [report EXCEPT !.total_resources = @ + 1,
                                 !.compliant_resources = @ + 1]
             ELSE [report EXCEPT !.total_resources = @ + 1,
                                 !.violations = Append(@,
                                     [resource_type |-> "S3 Bucket",
                                      resource_id |-> bucket.Name,
                                      missing_tags |-> missing])]
    ELSE report

\* fail = 1: describe_instances raises; 2: list_buckets raises
check_resource_tagging(acct, fail) ==
    LET after_ec2 == FoldLeft(tagging_instance, tagging_zero,
                              instances_of(acct.Reservations))
    IN  IF fail = 1 THEN except_return(tagging_zero, tagging_zero)
        ELSE IF fail = 2 THEN except_return(tagging_zero, after_ec2)
        ELSE FoldLeft(tagging_bucket, after_ec2, acct.Buckets)

sg_zero ==
    [total_security_groups |-> 0, compliant_security_groups |-> 0, violations |-> <<>>]

\* the violations of one inbound rule (lines 234-243)
rule_violations(rule) ==
    FoldLeft(LAMBDA found, ip_range :
                 IF /\ Get(ip_range, "CidrIp", "") = "0.0.0.0/0"
                    /\ ~("FromPort" \in DOMAIN rule /\ rule.FromPort \in {80, 443})
                 THEN Append(found, [type |-> "overly_permissive_inbound",
                                     port |-> Get(rule, "FromPort", "all"),
                                     protocol |-> Get(rule, "IpProtocol", "all"),
                                     cidr |-> "0.0.0.0/0"])
                 ELSE found,
             <<>>, Get(rule, "IpRanges", <<>>))

sg_violations(sg) ==
    FoldLeft(LAMBDA found, rule : found \o rule_violations(rule), <<>>, sg.IpPermissions)
    \o (IF Get(sg, "IpPermissions", <<>>) = <<>> /\ Get(sg, "IpPermissionsEgress", <<>>) = <<>>
        THEN <<[type |-> "unused_security_group", group_id |-> sg.GroupId]>>
        ELSE <<>>)

sg_group(report, sg) ==
    IF sg.GroupName = <<"default">> THEN report
    ELSE LET violations == sg_violations(sg)
         IN  IF violations = <<>>
             THEN [report EXCEPT !.total_security_groups = @ + 1,
                                 !.compliant_security_groups = @ + 1]
             ELSE [report EXCEPT !.total_security_groups = @ + 1,
                                 !.violations = Append(@,
                                     [group_id |-> sg.GroupId,
                                      group_name |-> sg.GroupName,
                                      violations |-> violations])]

\* fail = 1: describe_security_groups raises
check_security_groups(acct, fail) ==
    IF fail = 1 THEN except_return(sg_zero, sg_zero)
    ELSE FoldLeft(sg_group, sg_zero, acct.SecurityGroups)

s3_zero == [total_buckets |-> 0, compliant_buckets |-> 0, violations |-> <<>>]

bucket_violations(bucket) ==
    (IF "PublicAccessBlockConfiguration" \in DOMAIN bucket
     THEN LET pab_config == bucket.PublicAccessBlockConfiguration
          IN  IF /\ Get(pab_config, "BlockPublicAcls", FALSE)
                 /\ Get(pab_config, "IgnorePublicAcls", FALSE)
                 /\ Get(pab_config, "BlockPublicPolicy", FALSE)
                 /\ Get(pab_config, "RestrictPublicBuckets", FALSE)
              THEN <<>>
              ELSE <<[type |-> "public_access_not_blocked", current_config |-> pab_config]>>
     ELSE <<[type |-> "no_public_access_block",
             message |-> "Public access block not configured"]>>)
    \o (IF "ServerSideEncryptionConfiguration" \in DOMAIN bucket THEN <<>>
        ELSE <<[type |-> "encryption_not_enabled",
                message |-> "Server-side encryption not configured"]>>)

\* a loop body that appends every violation of the bucket to the report's list
s3_bucket_per_violation(report, bucket) ==
    IF ~contains_project(bucket.Name) THEN report
    ELSE LET violations == bucket_violations(bucket)
         IN  IF violations = <<>>
             THEN [report EXCEPT !.total_buckets = @ + 1, !.compliant_buckets = @ + 1]
             ELSE [report EXCEPT !.total_buckets = @ + 1,
                                 !.violations = @ \o violations]

\* check_s3_bucket_policies lines 283-328: one bucket of the loop; a bucket
\* with violations adds ONE entry, which holds the bucket's violations
s3_bucket(report, bucket) ==
    IF ~contains_project(bucket.Name) THEN report
    ELSE LET violations == bucket_violations(bucket)
         IN  IF violations = <<>>
             THEN [report EXCEPT !.total_buckets = @ + 1, !.compliant_buckets = @ + 1]
             ELSE [report EXCEPT !.total_buckets = @ + 1,
                                 !.violations = Append(@,
                                     [bucket_name |-> bucket.Name,
                                      violations |-> violations])]

\* fail = 1: list_buckets raises
check_s3_bucket_policies(acct, fail) ==
    IF fail = 1 THEN except_return(s3_zero, s3_zero)
    ELSE FoldLeft(s3_bucket, s3_zero, acct.Buckets)

encryption_zero == [total_resources |-> 0, encrypted_resources |-> 0, violations |-> <<>>]

encryption_db_instance(report, db_instance) ==
    IF Get(db_instance, "StorageEncrypted", FALSE)
    THEN [report EXCEPT !.total_resources = @ + 1, !.encrypted_resources = @ + 1]
    ELSE [report EXCEPT !.total_resources = @ + 1,
                        !.violations = Append(@,
                            [resource_type |-> "RDS Instance",
                             resource_id |-> db_instance.DBInstanceIdentifier,
                             issue |-> "Storage not encrypted"])]

encryption_volume(report, volume) ==
    IF Get(volume, "Encrypted", FALSE)
    THEN [report EXCEPT !.total_resources = @ + 1, !.encrypted_resources = @ + 1]
    ELSE [report EXCEPT !.total_resources = @ + 1,
                        !.violations = Append(@,
                            [resource_type |-> "EBS Volume",
                             resource_id |-> volume.VolumeId,
                             issue |-> "Volume not encrypted"])]

\* fail = 1: describe_db_instances raises; 2: describe_volumes raises
check_encryption_compliance(acct, fail) ==
    LET after_rds == FoldLeft(encryption_db_instance, encryption_zero, acct.DBInstances)
    IN  IF fail = 1 THEN except_return(encryption_zero, encryption_zero)
        ELSE IF fail = 2 THEN except_return(encryption_zero, after_rds)
        ELSE FoldLeft(encryption_volume, after_rds, acct.Volumes)

public_access_zero == [total_resources |-> 0, private_resources |-> 0, violations |-> <<>>]

public_db_instance(report, db_instance) ==
    IF ~Get(db_instance, "PubliclyAccessible", FALSE)
    THEN [report EXCEPT !.total_resources = @ + 1, !.private_resources = @ + 1]
    ELSE [report EXCEPT !.total_resources = @ + 1,
                        !.violations = Append(@,
                            [resource_type |-> "RDS Instance",
                             resource_id |-> db_instance.DBInstanceIdentifier,
                             issue |-> "Database is publicly accessible"])]

public_instance(report, instance) ==
    IF instance.State.Name \in {"running"}
    THEN LET subnet_type == lower(dict_get(Get(instance, "Tags", <<>>), "SubnetType", ""))
         IN  IF /\ "PublicIpAddress" \in DOMAIN instance
                /\ instance.PublicIpAddress # ""
                /\ subnet_type \in {"private", "database"}
             THEN [report EXCEPT !.total_resources = @ + 1,
                                 !.violations = Append(@,
                                     [resource_type |-> "EC2 Instance",
                                      resource_id |-> instance.InstanceId,
                                      issue |-> <<"Public IP in subnet", subnet_type>>])]
             ELSE [report EXCEPT !.total_resources = @ + 1, !.private_resources = @ + 1]
    ELSE report

\* fail = 1: describe_db_instances raises; 2: describe_instances raises
check_public_access_compliance(acct, fail) ==
    LET after_rds == FoldLeft(public_db_instance, public_access_zero, acct.DBInstances)
    IN  IF fail = 1 THEN except_return(public_access_zero, public_access_zero)
        ELSE IF fail = 2 THEN except_return(public_access_zero, after_rds)
        ELSE FoldLeft(public_instance, after_rds, instances_of(acct.Reservations))

\* an advisory repeated for each violation of the check
advisory_per_violation(checks, check_name, text) ==
    [i \in DOMAIN Get(Get(checks, check_name, EmptyDict), "violations", <<>>) |-> text]

\* the advisory of a custom check, when its violation list is not empty
advisory(checks, check_name, text) ==
    IF Get(Get(checks, check_name, EmptyDict), "violations", <<>>) # <<>>
    THEN <<text>> ELSE <<>>

generate_recommendations(report) ==
    LET config_status == Get(report, "config_rules_status", EmptyDict)
        checks        == Get(report, "custom_checks", EmptyDict)
    IN  (IF Get(config_status, "non_compliant_rules", 0) > 0
         THEN <<"Review and remediate non-compliant AWS Config rules">> ELSE <<>>)
        \o advisory(checks, "tagging_compliance",
             "Apply required tags (Project, Environment, ManagedBy) to all resources")
        \o advisory(checks, "security_groups",
             "Review security group rules and remove overly permissive access")
        \o advisory(checks, "s3_bucket_policies",
             "Enable S3 public access block and server-side encryption")
        \o advisory(checks, "encryption_status",
             "Enable encryption for RDS instances and EBS volumes")
        \o advisory(checks, "public_access",
             "Remove public access from resources in private subnets")

\* 90 = 0x1.68p+6 and 70 = 0x1.18p+6
Ninety == [m |-> <<0, 0, 0, 180>>, e |-> -46]

Seventy == [m |-> <<0, 0, 0, 140>>, e |-> -46]

\* a threshold that also notifies at exactly 90
below_threshold_inclusive(score) == ~FLess(Ninety, score)

\* handler line 73: compliance_score < 90
below_threshold(score) == FLess(score, Ninety)

\* bands that count the bounds 70 and 90 with the band below them
severity_inclusive(score) ==
    IF ~FLess(Seventy, score) THEN "Critical"
    ELSE IF ~FLess(Ninety, score) THEN "Warning"
    ELSE "Good"

\* send_compliance_notification lines 525-530: the label added to the subject
severity(score) ==
    IF FLess(score, Seventy) THEN "Critical"
    ELSE IF FLess(score, Ninety) THEN "Warning"
    ELSE "Good"

\* ---- the handler ---------------------------------------------------------

\* handler lines 46-55, without the timestamp
InitialReport ==
    [project |-> PROJECT_NAME, environment |-> ENVIRONMENT,
     config_rules_status |-> EmptyDict, custom_checks |-> EmptyDict,
     compliance_score |-> FZero, violations |-> <<>>, recommendations |-> <<>>]

InitCompliance ==
    /\ account \in Accounts
    /\ SNS_TOPIC_ARN \in {"", "arn:aws:sns:compliance"}
    /\ compliance_pc = "config_rules_status"
    /\ custom_checks = EmptyDict
    /\ compliance_report = InitialReport
    /\ raised = {}
    /\ notification_calls = 0
    /\ compliance_requests = <<>>
    /\ compliance_response = NoResponse

\* what a check's calls may do: 0 when none raises, else the call that raises
FailChoices(calls) ==
    {0} \cup (IF Cardinality(raised) < MaxFailures THEN 1..calls ELSE {})

\* handler line 58: compliance_report['config_rules_status'] =
\* get_config_rules_compliance()
GetConfigRulesCompliance ==
    /\ compliance_pc = "config_rules_status"
    /\ \E fail \in FailChoices(1) :
         /\ compliance_report' = [compliance_report EXCEPT !.config_rules_status =
                                      get_config_rules_compliance(account, fail)]
         /\ raised' = IF fail # 0 THEN raised \cup {"config_rules_status"} ELSE raised
    /\ compliance_pc' = "tagging_compliance"
    /\ UNCHANGED << account, SNS_TOPIC_ARN, custom_checks, notification_calls,
                    compliance_requests, compliance_response >>
    /\ UNCHANGED not_compliance_vars

\* perform_custom_checks line 138
CheckResourceTagging ==
    /\ compliance_pc = "tagging_compliance"
    /\ \E fail \in FailChoices(2) :
         /\ custom_checks' = ("tagging_compliance" :> check_resource_tagging(account, fail))
                             @@ custom_checks
         /\ raised' = IF fail # 0 THEN raised \cup {"tagging_compliance"} ELSE raised
    /\ compliance_pc' = "security_groups"
    /\ UNCHANGED << account, SNS_TOPIC_ARN, compliance_report, notification_calls,
                    compliance_requests, compliance_response >>
    /\ UNCHANGED not_compliance_vars

\* perform_custom_checks line 139
CheckSecurityGroups ==
    /\ compliance_pc = "security_groups"
    /\ \E fail \in FailChoices(1) :
         /\ custom_checks' = ("security_groups" :> check_security_groups(account, fail))
                             @@ custom_checks
         /\ raised' = IF fail # 0 THEN raised \cup {"security_groups"} ELSE raised
    /\ compliance_pc' = "s3_bucket_policies"
    /\ UNCHANGED << account, SNS_TOPIC_ARN, compliance_report, notification_calls,
                    compliance_requests, compliance_response >>
    /\ UNCHANGED not_compliance_vars

\* perform_custom_checks line 140
CheckS3BucketPolicies ==
    /\ compliance_pc = "s3_bucket_policies"
    /\ \E fail \in FailChoices(1) :
         /\ custom_checks' = ("s3_bucket_policies" :> check_s3_bucket_policies(account, fail))
                             @@ custom_checks
         /\ raised' = IF fail # 0 THEN raised \cup {"s3_bucket_policies"} ELSE raised
    /\ compliance_pc' = "encryption_status"
    /\ UNCHANGED << account, SNS_TOPIC_ARN, compliance_report, notification_calls,
                    compliance_requests, compliance_response >>
    /\ UNCHANGED not_compliance_vars

\* perform_custom_checks line 141
CheckEncryptionCompliance ==
    /\ compliance_pc = "encryption_status"
    /\ \E fail \in FailChoices(2) :
         /\ custom_checks' = ("encryption_status" :> check_encryption_compliance(account, fail))
                             @@ custom_checks
         /\ raised' = IF fail # 0 THEN raised \cup {"encryption_status"} ELSE raised
    /\ compliance_pc' = "public_access"
    /\ UNCHANGED << account, SNS_TOPIC_ARN, compliance_report, notification_calls,
                    compliance_requests, compliance_response >>
    /\ UNCHANGED not_compliance_vars

\* perform_custom_checks lines 142-145 and handler line 61: the last check,
\* and compliance_report['custom_checks'] = perform_custom_checks()
CheckPublicAccessCompliance ==
    /\ compliance_pc = "public_access"
    /\ \E fail \in FailChoices(2) :
         /\ custom_checks' = ("public_access" :> check_public_access_compliance(account, fail))
                             @@ custom_checks
         /\ raised' = IF fail # 0 THEN raised \cup {"public_access"} ELSE raised
    /\ compliance_report' = [compliance_report EXCEPT !.custom_checks = custom_checks']
    /\ compliance_pc' = "compliance_score"
    /\ UNCHANGED << account, SNS_TOPIC_ARN, notification_calls, compliance_requests,
                    compliance_response >>
    /\ UNCHANGED not_compliance_vars

\* handler lines 64-67
CalculateComplianceScore ==
    /\ compliance_pc = "compliance_score"
    /\ compliance_report' = [compliance_report EXCEPT !.compliance_score =
           calculate_compliance_score(compliance_report.config_rules_status,
                                      compliance_report.custom_checks)]
    /\ compliance_pc' = "recommendations"
    /\ UNCHANGED << account, SNS_TOPIC_ARN, custom_checks, raised, notification_calls,
                    compliance_requests, compliance_response >>
    /\ UNCHANGED not_compliance_vars

\* handler line 70
GenerateRecommendations ==
    /\ compliance_pc = "recommendations"
    /\ compliance_report' = [compliance_report EXCEPT !.recommendations =
                                 generate_recommendations(compliance_report)]
    /\ compliance_pc' = "threshold"
    /\ UNCHANGED << account, SNS_TOPIC_ARN, custom_checks, raised, notification_calls,
                    compliance_requests, compliance_response >>
    /\ UNCHANGED not_compliance_vars

\* handler lines 73-81 when the score is below the threshold:
\* send_compliance_notification returns at once without a topic, else it
\* publishes and swallows an exception of sns.publish; the handler returns 200
SendComplianceNotification ==
    /\ compliance_pc = "threshold"
    /\ below_threshold(compliance_report.compliance_score)
    /\ notification_calls' = notification_calls + 1
    /\ IF SNS_TOPIC_ARN = ""
       THEN UNCHANGED compliance_requests
       ELSE \E ok \in BOOLEAN :
              compliance_requests' = Append(compliance_requests,
                  Request("publish",
                          [kind |-> "compliance",
                           score |-> compliance_report.compliance_score,
                           severity |-> severity(compliance_report.compliance_score)],
                          ok))
    /\ compliance_response' = [statusCode |-> 200, body |-> compliance_report]
    /\ compliance_pc' = "done"
    /\ UNCHANGED << account, SNS_TOPIC_ARN, custom_checks, compliance_report, raised >>
    /\ UNCHANGED not_compliance_vars

\* handler lines 73-81 when the score is not below the threshold
ReturnReport ==
    /\ compliance_pc = "threshold"
    /\ ~below_threshold(compliance_report.compliance_score)
    /\ compliance_response' = [statusCode |-> 200, body |-> compliance_report]
    /\ compliance_pc' = "done"
    /\ UNCHANGED << account, SNS_TOPIC_ARN, custom_checks, compliance_report, raised,
                    notification_calls, compliance_requests >>
    /\ UNCHANGED not_compliance_vars

NextCompliance ==
    \/ GetConfigRulesCompliance
    \/ CheckResourceTagging
    \/ CheckSecurityGroups
    \/ CheckS3BucketPolicies
    \/ CheckEncryptionCompliance
    \/ CheckPublicAccessCompliance
    \/ CalculateComplianceScore
    \/ GenerateRecommendations
    \/ SendComplianceNotification
    \/ ReturnReport

(***************************************************************************)
(* calculate_compliance_score called on its own.                           *)
(***************************************************************************)
MaxRuleTotal == 10

MaxCheckTotal == 1

ConfigStatuses ==
    { [total_rules |-> tc[1], compliant_rules |-> tc[2],
       non_compliant_rules |-> tc[1] - tc[2], rules_detail |-> EmptyDict] :
      tc \in { p \in {0, 1, MaxRuleTotal} \X (0..MaxRuleTotal) : p[2] <= p[1] } }

Counts == { tc \in (0..MaxCheckTotal) \X (0..MaxCheckTotal) : tc[2] <= tc[1] }

CustomChecks ==
    [tagging_compliance :
         { [total_resources |-> tc[1], compliant_resources |-> tc[2], violations |-> <<>>] :
           tc \in Counts },
     security_groups    :
         { [total_security_groups |-> tc[1], compliant_security_groups |-> tc[2],
            violations |-> <<>>] : tc \in Counts },
     s3_bucket_policies :
         { [total_buckets |-> tc[1], compliant_buckets |-> tc[2], violations |-> <<>>] :
           tc \in Counts },
     encryption_status  :
         { [total_resources |-> tc[1], encrypted_resources |-> tc[2], violations |-> <<>>] :
           tc \in Counts },
     public_access      :
         { [total_resources |-> tc[1], private_resources |-> tc[2], violations |-> <<>>] :
           tc \in Counts }]

NoScore == [returned |-> FALSE, value |-> FZero]

InitScore ==
    /\ score_args \in [config_status : ConfigStatuses, custom_checks : CustomChecks]
    /\ score_result = NoScore

CallCalculateComplianceScore ==
    /\ ~score_result.returned
    /\ score_result' = [returned |-> TRUE,
                        value |-> calculate_compliance_score(score_args.config_status,
                                                             score_args.custom_checks)]
    /\ UNCHANGED score_args
    /\ UNCHANGED not_score_vars

NextScore == CallCalculateComplianceScore

(***************************************************************************)
(* send_compliance_notification called on its own, with a report of any    *)
(* score.                                                                  *)
(***************************************************************************)
\* the largest doubles below 70 and below 90
BelowSeventy == [m |-> <<32767, 32767, 32767, 139>>, e |-> -46]

BelowNinety == [m |-> <<32767, 32767, 32767, 179>>, e |-> -46]

\* the scores of the reports: the whole percentages and the neighbours of
\* the two bounds
NotifyScores == { FromInt(k) : k \in 0..100 } \cup {BelowSeventy, BelowNinety}

NoNotifyCall ==
    [pc |-> "idle", topic |-> "", score |-> FZero, published |-> <<>>]

InitNotify ==
    \E topic \in {"", "arn:aws:sns:compliance"}, score \in NotifyScores :
        notify_call = [pc |-> "call", topic |-> topic, score |-> score,
                       published |-> <<>>]

\* send_compliance_notification lines 518-560: it returns at once without a
\* topic, else it labels the subject and publishes; an exception of
\* sns.publish is logged
CallSendComplianceNotification ==
    /\ notify_call.pc = "call"
    /\ IF notify_call.topic = ""
       THEN notify_call' = [notify_call EXCEPT !.pc = "returned"]
       ELSE \E ok \in BOOLEAN :
              notify_call' =
                  [notify_call EXCEPT
                     !.pc = "returned",
                     !.published = Append(@,
                         Request("publish",
                                 [kind |-> "compliance", score |-> notify_call.score,
                                  severity |-> severity(notify_call.score)],
                                 ok))]
    /\ UNCHANGED not_notify_vars

NextNotify == CallSendComplianceNotification

(***************************************************************************)
(* Notification Relay (slack_notifier.py).                                 *)
(*                                                                         *)
(* Strings that the handler searches or splits are sequences of            *)
(* characters.                                                             *)
(***************************************************************************)
MaxRecords == 3

\* the literal 'app-notifications' of line 44
AppNotifications == <<"a", "p", "p", "-", "n", "o", "t", "i", "f", "i", "c", "a", "t", "i", "o", "n", "s">>

\* s[i..] starts with sub
starts_at(sub, s, i) ==
    /\ i + Len(sub) - 1 <= Len(s)
    /\ \A k \in 1..Len(sub) : s[i + k - 1] = sub[k]

RECURSIVE find_from(_, _, _)
\* str.find from position i: the first position at which sub occurs, 0 if none
find_from(sub, s, i) ==
    IF i + Len(sub) - 1 > Len(s) THEN 0
    ELSE IF starts_at(sub, s, i) THEN i
    ELSE find_from(sub, s, i + 1)

\* sub in s
str_in(sub, s) == find_from(sub, s, 1) # 0

RECURSIVE last_segment(_, _)
\* s.split(':')[-1], scanning back from position i
last_segment(s, i) ==
    IF i = 0 THEN s
    ELSE IF s[i] = ":" THEN SubSeq(s, i + 1, Len(s))
    ELSE last_segment(s, i - 1)

\* the classification by the end of the topic identifier alone
notification_type_by_suffix(topic_arn) ==
    IF /\ Len(topic_arn) >= Len(AppNotifications)
       /\ starts_at(AppNotifications, topic_arn, Len(topic_arn) - Len(AppNotifications) + 1)
    THEN "Application" ELSE "Infrastructure"

\* lines 44-49
notification_type(topic_arn) ==
    IF str_in(AppNotifications, topic_arn) THEN "Application" ELSE "Infrastructure"

\* lines 46 and 49
color(type) == IF type = "Application" THEN "#36a64f" ELSE "#ff9900"

\* lines 38-79: the Slack message of one record
slack_message(record) ==
    LET sns_message == record.Sns
        subject     == Get(sns_message, "Subject", "EPiC Infrastructure Notification")
        message     == Get(sns_message, "Message", "")
        topic_arn   == Get(sns_message, "TopicArn", <<>>)
        timestamp   == Get(sns_message, "Timestamp", "")
        type        == notification_type(topic_arn)
    IN  [color |-> color(type), title |-> <<type, subject>>, text |-> message,
         Topic |-> last_segment(topic_arn, Len(topic_arn)), Timestamp |-> timestamp,
         Type |-> type]

\* a response aborts the batch only when it is a server error
post_failed_on_server_error(status) == status >= 500

\* line 90: resp.status != 200
post_failed(status) == status # 200

\* ---- the environment's choices ------------------------------------------

\* topic identifiers: 'arn:' followed by a topic name
ArnPrefix == <<"a", "r", "n", ":">>

TopicNames ==
    { AppNotifications,
      <<"e", "p", "i", "c", "-">> \o AppNotifications \o <<"-", "p", "r", "o", "d">>,
      <<"a", "p", "p", "-", "n", "o", "t", "i", "f", "i", "c", "a", "t", "i", "o", "n">>,
      <<"A", "p", "p", "-", "N", "o", "t", "i", "f", "i", "c", "a", "t", "i", "o", "n", "s">>,
      <<"i", "n", "f", "r", "a", "-", "a", "l", "e", "r", "t", "s">>,
      <<"a", "p", "p", "-">> \o AppNotifications }

\* the TopicArn of an envelope: a topic identifier, the empty string, or
\* no TopicArn at all
TopicChoices ==
    { [present |-> TRUE, arn |-> ArnPrefix \o name] : name \in TopicNames }
      \cup { [present |-> TRUE, arn |-> <<>>], [present |-> FALSE, arn |-> <<>>] }

\* the k-th envelope of a batch
Envelope(k, topic) ==
    IF ~topic.present
    THEN [Sns |-> [Subject |-> "alarm", Message |-> <<"message", k>>, Timestamp |-> k]]
    ELSE [Sns |-> [Subject |-> "alarm", Message |-> <<"message", k>>, Timestamp |-> k,
                   TopicArn |-> topic.arn]]

Batches ==
    UNION { { [k \in 1..n |-> Envelope(k, topics[k])] : topics \in [1..n -> TopicChoices] } :
            n \in 0..MaxRecords }

\* what a POST comes back with: a status, or an exception of http.request
PostOutcomes ==
    { [raised |-> FALSE, status |-> st] : st \in {200, 204, 500} }
      \cup { [raised |-> TRUE, status |-> 0] }

\* ---- the handler ---------------------------------------------------------

InitRelay ==
    /\ webhook_url \in {"", "https://hooks.slack.com/services/T"}
    /\ event \in { [Records |-> b] : b \in Batches }
    /\ relay_pc = "start"
    /\ relay_idx = 0
    /\ posts = <<>>
    /\ relay_response = NoResponse

\* lines 25-34: the webhook test and the entry of the for loop; an empty
\* batch falls through to the return of lines 99-102
RelayStart ==
    /\ relay_pc = "start"
    /\ IF webhook_url = ""
       THEN /\ relay_response' = [statusCode |-> 500, body |-> <<"Webhook URL not configured">>]
            /\ relay_pc' = "done"
            /\ UNCHANGED relay_idx
       ELSE IF event.Records = <<>>
       THEN /\ relay_response' = [statusCode |-> 200, body |-> <<"Notifications sent successfully">>]
            /\ relay_pc' = "done"
            /\ UNCHANGED relay_idx
       ELSE /\ relay_pc' = "post"
            /\ relay_idx' = 1
            /\ UNCHANGED relay_response
    /\ UNCHANGED << webhook_url, event, posts >>
    /\ UNCHANGED not_relay_vars

\* lines 34-108: one iteration of the loop, the POST of one record and what
\* follows from its outcome
RelayPost ==
    /\ relay_pc = "post"
    /\ \E outcome \in PostOutcomes :
         /\ posts' = Append(posts, [body |-> slack_message(event.Records[relay_idx]),
                                    url |-> webhook_url, outcome |-> outcome])
         /\ IF outcome.raised
            THEN /\ relay_response' = [statusCode |-> 500,
                                       body |-> <<"Error processing notification">>]
                 /\ relay_pc' = "done"
            ELSE IF post_failed(outcome.status)
            THEN /\ relay_response' = [statusCode |-> 500,
                                       body |-> <<"Failed to send Slack notification", outcome.status>>]
                 /\ relay_pc' = "done"
            ELSE IF relay_idx = Len(event.Records)
            THEN /\ relay_response' = [statusCode |-> 200,
                                       body |-> <<"Notifications sent successfully">>]
                 /\ relay_pc' = "done"
            ELSE /\ relay_pc' = "post"
                 /\ UNCHANGED relay_response
    /\ relay_idx' = relay_idx + 1
    /\ UNCHANGED << webhook_url, event >>
    /\ UNCHANGED not_relay_vars

NextRelay == RelayStart \/ RelayPost

(***************************************************************************)
(* Cost Optimizer (cost_optimizer.py): the static tables.                  *)
(***************************************************************************)

\* None, as dict.get returns it for a key the table lacks
None == ""

\* suggest_smaller_instance_type, lines 410-421
instance_downsize_map ==
    ("t3.large" :> "t3.medium") @@ ("t3.medium" :> "t3.small") @@
    ("t3.xlarge" :> "t3.large") @@ ("m5.large" :> "m5.medium") @@
    ("m5.xlarge" :> "m5.large") @@ ("m5.2xlarge" :> "m5.xlarge") @@
    ("r5.large" :> "r5.medium") @@ ("r5.xlarge" :> "r5.large") @@
    ("c5.large" :> "c5.medium") @@ ("c5.xlarge" :> "c5.large")

suggest_smaller_instance_type(current_type) == Get(instance_downsize_map, current_type, None)

\* suggest_smaller_rds_class, lines 430-437
rds_downsize_map ==
    ("db.t3.large" :> "db.t3.medium") @@ ("db.t3.medium" :> "db.t3.small") @@
    ("db.m5.large" :> "db.m5.medium") @@ ("db.m5.xlarge" :> "db.m5.large") @@
    ("db.r5.large" :> "db.r5.medium") @@ ("db.r5.xlarge" :> "db.r5.large")

suggest_smaller_rds_class(current_class) == Get(rds_downsize_map, current_class, None)

\* estimate_instance_cost_savings, lines 447-452
instance_cost_map ==
    ("t3.nano" :> 5) @@ ("t3.micro" :> 8) @@ ("t3.small" :> 17) @@ ("t3.medium" :> 34) @@
    ("t3.large" :> 67) @@ ("m5.medium" :> 44) @@ ("m5.large" :> 87) @@ ("m5.xlarge" :> 174) @@
    ("r5.medium" :> 61) @@ ("r5.large" :> 122) @@ ("r5.xlarge" :> 244) @@
    ("c5.medium" :> 39) @@ ("c5.large" :> 77) @@ ("c5.xlarge" :> 154)

\* max(0, x)
max0(x) == IF x > 0 THEN x ELSE 0

\* the difference of the two prices as it is
estimate_instance_cost_savings_unfloored(current_type, suggested_type) ==
    Get(instance_cost_map, current_type, 0) - Get(instance_cost_map, suggested_type, 0)

\* lines 454-457
estimate_instance_cost_savings(current_type, suggested_type) ==
    LET current_cost   == Get(instance_cost_map, current_type, 0)
        suggested_cost == Get(instance_cost_map, suggested_type, 0)
    IN  max0(current_cost - suggested_cost)

\* estimate_rds_cost_savings, lines 465-469
rds_cost_map ==
    ("db.t3.micro" :> 15) @@ ("db.t3.small" :> 30) @@ ("db.t3.medium" :> 61) @@
    ("db.t3.large" :> 122) @@ ("db.m5.medium" :> 70) @@ ("db.m5.large" :> 140) @@
    ("db.m5.xlarge" :> 280) @@ ("db.r5.medium" :> 85) @@ ("db.r5.large" :> 170) @@
    ("db.r5.xlarge" :> 340)

\* lines 471-474
estimate_rds_cost_savings(current_class, suggested_class) ==
    LET current_cost   == Get(rds_cost_map, current_class, 0)
        suggested_cost == Get(rds_cost_map, suggested_class, 0)
    IN  max0(current_cost - suggested_cost)

\* ---- a call of estimate_instance_cost_savings ----------------------------

\* the sizes of the two tables, and one that neither table knows
InstanceTypes == DOMAIN instance_cost_map \cup DOMAIN instance_downsize_map \cup {"x1.32xlarge"}

NoSavings == [current |-> None, suggested |-> None, returned |-> FALSE, value |-> 0]

InitSavings ==
    \E current \in InstanceTypes, suggested \in InstanceTypes :
      savings_call = [NoSavings EXCEPT !.current = current, !.suggested = suggested]

CallEstimateInstanceCostSavings ==
    /\ ~savings_call.returned
    /\ savings_call' =
         [savings_call EXCEPT !.returned = TRUE,
                              !.value = estimate_instance_cost_savings(savings_call.current,
                                                                       savings_call.suggested)]
    /\ UNCHANGED not_savings_vars

NextSavings == CallEstimateInstanceCostSavings

(***************************************************************************)
(* Cost Optimizer: the utilization of EC2 and RDS instances.               *)
(*                                                                         *)
(* What AWS answers is fixed before the call: for describe_instances and   *)
(* describe_db_instances the response or an exception, and for each        *)
(* instance the datapoints CloudWatch holds and whether the call of        *)
(* get_metric_statistics raises.                                           *)
(***************************************************************************)
MaxCostInstances == 1

MaxDatapoints == 2

\* COST_THRESHOLD and UTILIZATION_THRESHOLD, lines 37-38, at their defaults
\* 10.0 = 0x1.4p+3, 20.0 = 0x1.4p+4
COST_THRESHOLD == [m |-> <<0, 0, 0, 160>>, e |-> -49]

UTILIZATION_THRESHOLD == [m |-> <<0, 0, 0, 160>>, e |-> -48]

\* sum(dp['Average'] for dp in datapoints)
float_sum(datapoints) ==
    FoldLeft(LAMBDA acc, dp : FAdd(acc, FromInt(dp.Average)), FZero, datapoints)

\* lines 332-336, 363-367: the mean of the datapoints, 0.0 when there is none
average(datapoints) ==
    IF datapoints # <<>> THEN FDiv(float_sum(datapoints), FromInt(Len(datapoints)))
    ELSE FZero

\* get_average_cpu_utilization and get_rds_cpu_utilization: metric is what
\* get_metric_statistics does, an exception (lines 338-340, 369-371) gives 0.0
get_average_cpu_utilization(metric) ==
    IF metric.raises THEN FZero ELSE average(metric.Datapoints)

\* get_rds_connection_utilization, lines 394-402
get_rds_connection_utilization(metric, max_connections) ==
    IF metric.raises THEN FZero
    ELSE IF metric.Datapoints # <<>> /\ max_connections > 0
    THEN FMul(FDiv(average(metric.Datapoints), FromInt(max_connections)), Hundred)
    ELSE FZero

\* the comparison with <= in place of <
cpu_below_threshold_inclusive(cpu_utilization) == ~FLess(UTILIZATION_THRESHOLD, cpu_utilization)

\* lines 175 and 218: cpu_utilization < UTILIZATION_THRESHOLD
cpu_below_threshold(cpu_utilization) == FLess(cpu_utilization, UTILIZATION_THRESHOLD)

\* the comparison with <= in place of <
connections_below_limit_inclusive(connection_utilization) ==
    ~FLess(FromInt(50), connection_utilization)

\* line 218: connection_utilization < 50
connections_below_limit(connection_utilization) ==
    FLess(connection_utilization, FromInt(50))

\* lines 169-188: one instance of the loop
ec2_instance(recommendations, instance) ==
    LET instance_id     == instance.InstanceId
        instance_type   == instance.InstanceType
        cpu_utilization == get_average_cpu_utilization(instance.metric)
        suggested_type  == suggest_smaller_instance_type(instance_type)
    IN  IF cpu_below_threshold(cpu_utilization) /\ suggested_type # None
        THEN Append(recommendations,
                    [instance_id |-> instance_id,
                     current_type |-> instance_type,
                     suggested_type |-> suggested_type,
                     current_cpu_utilization |-> cpu_utilization,
                     monthly_savings |->
                         estimate_instance_cost_savings(instance_type, suggested_type)])
        ELSE recommendations

\* lines 156-195; an exception of describe_instances gives []
analyze_ec2_instances(ec2) ==
    IF ec2.describe_raises THEN <<>>
    ELSE FoldLeft(ec2_instance, <<>>, instances_of(ec2.Reservations))

\* lines 208-232: one instance of the loop
rds_instance(recommendations, db_instance) ==
    IF db_instance.DBInstanceStatus # "available" THEN recommendations
    ELSE LET instance_id     == db_instance.DBInstanceIdentifier
             instance_class  == db_instance.DBInstanceClass
             cpu_utilization == get_average_cpu_utilization(db_instance.cpu_metric)
             connection_utilization ==
                 get_rds_connection_utilization(db_instance.connection_metric,
                                                Get(db_instance, "AllocatedStorage", 0))
             suggested_class == suggest_smaller_rds_class(instance_class)
         IN  IF /\ cpu_below_threshold(cpu_utilization)
                /\ connections_below_limit(connection_utilization)
                /\ suggested_class # None
             THEN Append(recommendations,
                         [instance_id |-> instance_id,
                          current_class |-> instance_class,
                          suggested_class |-> suggested_class,
                          current_cpu_utilization |-> cpu_utilization,
                          connection_utilization |-> connection_utilization,
                          monthly_savings |->
                              estimate_rds_cost_savings(instance_class, suggested_class)])
             ELSE recommendations

\* lines 202-239; an exception of describe_db_instances gives []
analyze_rds_instances(rds) ==
    IF rds.describe_raises THEN <<>>
    ELSE FoldLeft(rds_instance, <<>>, rds.DBInstances)

\* ---- the environment's choices ------------------------------------------

\* hourly averages below, at and above the threshold of 20
CpuAverages == {10, 20, 30}

DatapointLists(values) ==
    UNION { [1..n -> { [Average |-> v] : v \in values }] : n \in 0..MaxDatapoints }

Metrics(values) == [Datapoints : DatapointLists(values), raises : BOOLEAN]

\* a size with a smaller one of known price, one without a smaller one, and
\* one with a smaller one but no price
CostInstanceTypes == {"t3.large", "t3.nano", "m5.2xlarge"}

\* the k-th running instance of the project
CostInstance(k, type, metric) ==
    [InstanceId |-> <<"i", k>>, InstanceType |-> type, metric |-> metric]

Ec2Responses ==
    UNION { { [describe_raises |-> raises,
               Reservations |-> IF n = 0 THEN <<>>
                                ELSE << [Instances |->
                                           [k \in 1..n |-> CostInstance(k, c[k].type, c[k].metric)]] >>] :
              c \in [1..n -> [type : CostInstanceTypes, metric : Metrics(CpuAverages)]],
              raises \in BOOLEAN } :
            n \in 0..MaxCostInstances }

\* average connections 1 or 2, against an allocated capacity of 0 (absent),
\* 2 or 4: utilizations of 25, 50 and 100 percent
ConnectionAverages == {1, 2}

DbClasses == {"db.t3.large", "db.t3.micro"}

DbChoices ==
    [status : {"available", "stopped"}, class : DbClasses, allocated : {0, 2, 4},
     cpu : Metrics({10, 20}), connections : Metrics(ConnectionAverages)]

\* the k-th DB instance
CostDbInstance(k, c) ==
    LET base == [DBInstanceIdentifier |-> <<"db", k>>, DBInstanceStatus |-> c.status,
                 DBInstanceClass |-> c.class, cpu_metric |-> c.cpu,
                 connection_metric |-> c.connections]
    IN  IF c.allocated = 0 THEN base
        ELSE [key \in DOMAIN base \cup {"AllocatedStorage"} |->
                IF key = "AllocatedStorage" THEN c.allocated ELSE base[key]]

RdsResponses ==
    UNION { { [describe_raises |-> raises,
               DBInstances |-> [k \in 1..n |-> CostDbInstance(k, c[k])]] :
              c \in [1..n -> DbChoices], raises \in BOOLEAN } :
            n \in 0..MaxCostInstances }

\* ---- the calls -------------------------------------------------------------

NoEc2Call == [ec2 |-> [describe_raises |-> FALSE, Reservations |-> <<>>],
              returned |-> FALSE, recommendations |-> <<>>]

NoRdsCall == [rds |-> [describe_raises |-> FALSE, DBInstances |-> <<>>],
              returned |-> FALSE, recommendations |-> <<>>]

InitEc2 ==
    /\ \E ec2 \in Ec2Responses : ec2_call = [NoEc2Call EXCEPT !.ec2 = ec2]
    /\ rds_call = NoRdsCall

CallAnalyzeEc2Instances ==
    /\ ~ec2_call.returned
    /\ ec2_call' = [ec2_call EXCEPT !.returned = TRUE,
                                    !.recommendations = analyze_ec2_instances(ec2_call.ec2)]
    /\ UNCHANGED rds_call
    /\ UNCHANGED not_analysis_vars

NextEc2 == CallAnalyzeEc2Instances

InitRds ==
    /\ ec2_call = NoEc2Call
    /\ \E rds \in RdsResponses : rds_call = [NoRdsCall EXCEPT !.rds = rds]

CallAnalyzeRdsInstances ==
    /\ ~rds_call.returned
    /\ rds_call' = [rds_call EXCEPT !.returned = TRUE,
                                    !.recommendations = analyze_rds_instances(rds_call.rds)]
    /\ UNCHANGED ec2_call
    /\ UNCHANGED not_analysis_vars

NextRds == CallAnalyzeRdsInstances

\* ---- analyze_s3_storage --------------------------------------------------

MaxCostBuckets == 1
MaxObjects == 2

\* PROJECT_NAME as the characters the bucket names are searched for
ProjectNameChars == <<"e", "p", "i", "c">>

\* 1024 ** 3 = 0x1p+30
GiB == [m |-> <<0, 0, 0, 128>>, e |-> -22]
ThirtyDays == 30

\* get_bucket_lifecycle_policy, lines 481-488.  A bucket's request answers
\* with rules, with no Rules key, or raises; the first except clause names
\* s3.exceptions.NoSuchLifecycleConfiguration, and when the client has no
\* such attribute the AttributeError of that clause leaves the function.
\* The result is [raised, policy], policy being the rules or None (<<>>).
get_bucket_lifecycle_policy(s3, bucket) ==
    IF bucket.lifecycle = "raises"
    THEN [raised |-> ~s3.exception_class_known, policy |-> <<>>]
    ELSE [raised |-> FALSE,
          policy |-> IF bucket.lifecycle = "rules" THEN <<"rule">> ELSE <<>>]

\* lines 497-510: the loop over response.get('Contents', []); sizes are byte
\* counts below 2^53, whose sum float addition gives exactly
object_step(acc, obj) ==
    [total_size        |-> FAdd(acc.total_size, FromInt(obj.Size)),
     old_objects_count |-> IF obj.age_days > ThirtyDays
                           THEN acc.old_objects_count + 1 ELSE acc.old_objects_count]

\* analyze_bucket_storage, lines 495-515
analyze_bucket_storage(bucket) ==
    IF bucket.list_objects_raises
    THEN [total_size_gb |-> FZero, old_objects_count |-> 0]
    ELSE LET acc == FoldLeft(object_step, [total_size |-> FZero, old_objects_count |-> 0],
                             bucket.Contents)
         IN  [total_size_gb     |-> FDiv(acc.total_size, GiB),
              old_objects_count |-> acc.old_objects_count]

\* estimate_s3_lifecycle_savings, lines 523-525: the prices per GB and month,
\* as the binary64 nearest to the decimal (FLiteral(23, 1000) etc. evaluate to
\* exactly these records):
\*   0.023 = 0x1.78d4fdf3b645ap-6   0.0125 = 0x1.999999999999ap-7
\*   0.004 = 0x1.0624dd2f1a9fcp-8
standard_cost_per_gb == [m |-> <<25690, 15990, 13631, 188>>, e |-> -58]

ia_cost_per_gb == [m |-> <<6554, 13107, 26214, 204>>, e |-> -59]

glacier_cost_per_gb == [m |-> <<10748, 9699, 2359, 131>>, e |-> -60]

\* the literals 0.7, 0.4 and 0.3 of lines 527-529:
\*   0.7 = 0x1.6666666666666p-1   0.4 = 0x1.999999999999ap-2
\*   0.3 = 0x1.3333333333333p-2
OldDataShare == [m |-> <<26214, 19660, 6553, 179>>, e |-> -53]

IaShare == [m |-> <<6554, 13107, 26214, 204>>, e |-> -54]

GlacierShare == [m |-> <<13107, 26214, 19660, 153>>, e |-> -54]

\* estimate_s3_lifecycle_savings, lines 527-531
estimate_s3_lifecycle_savings(storage_analysis) ==
    LET old_data_gb     == FMul(storage_analysis.total_size_gb, OldDataShare)
        ia_savings      == FMul(FMul(old_data_gb, IaShare),
                                FSub(standard_cost_per_gb, ia_cost_per_gb))
        glacier_savings == FMul(FMul(old_data_gb, GlacierShare),
                                FSub(standard_cost_per_gb, glacier_cost_per_gb))
    IN  FAdd(ia_savings, glacier_savings)

\* lines 251-271: one bucket of the loop; acc is [raised, recommendations]
s3_storage_bucket(s3, acc, bucket) ==
    IF acc.raised \/ ~str_in(ProjectNameChars, bucket.Name) THEN acc
    ELSE LET lifecycle        == get_bucket_lifecycle_policy(s3, bucket)
             storage_analysis == analyze_bucket_storage(bucket)
         IN  IF lifecycle.raised THEN [acc EXCEPT !.raised = TRUE]
             ELSE IF lifecycle.policy = <<>> /\ FLess(FromInt(1), storage_analysis.total_size_gb)
             THEN [acc EXCEPT !.recommendations =
                      Append(@, [bucket_name        |-> bucket.Name,
                                 current_storage_gb |-> storage_analysis.total_size_gb,
                                 old_objects_count  |-> storage_analysis.old_objects_count,
                                 monthly_savings    |->
                                     estimate_s3_lifecycle_savings(storage_analysis)])]
             ELSE acc

\* analyze_s3_storage, lines 246-278; any exception gives []
analyze_s3_storage(s3) ==
    IF s3.list_buckets_raises THEN <<>>
    ELSE LET acc == FoldLeft(LAMBDA a, b : s3_storage_bucket(s3, a, b),
                             [raised |-> FALSE, recommendations |-> <<>>], s3.Buckets)
         IN  IF acc.raised THEN <<>> ELSE acc.recommendations

\* ---- get_reserved_instance_recommendations --------------------------------

MaxRiRecommendations == 1

\* float(details.get('EstimatedMonthlySavingsAmount', 0)), line 299: the
\* amount is a decimal string num/den, is absent, or is no number (float
\* raises ValueError)
ri_step(acc, details) ==
    IF acc.raised THEN acc
    ELSE IF details.amount.kind = "invalid" THEN [acc EXCEPT !.raised = TRUE]
    ELSE [acc EXCEPT !.recommendations =
             Append(@, [instance_type   |-> details.InstanceType,
                        monthly_savings |->
                            IF details.amount.kind = "absent" THEN FZero
                            ELSE FLiteral(details.amount.num, details.amount.den)])]

\* lines 285-309; any exception gives []
get_reserved_instance_recommendations(ce) ==
    IF ce.recommendation_raises THEN <<>>
    ELSE LET acc == FoldLeft(ri_step, [raised |-> FALSE, recommendations |-> <<>>],
                             ce.Recommendations)
         IN  IF acc.raised THEN <<>> ELSE acc.recommendations

\* ---- the Cost Optimizer's handler ---------------------------------------

\* get_cost_summary, lines 116-149: the amounts of the month's groups added
\* up; an exception of get_cost_and_usage gives the zero summary
get_cost_summary(ce) ==
    IF ce.cost_raises THEN [current_month_total |-> FZero]
    ELSE [current_month_total |->
            FoldLeft(LAMBDA total, amount : FAdd(total, FLiteral(amount.num, amount.den)),
                     FZero, ce.Amounts)]

\* sum(rec.get('monthly_savings', 0) for rec in ...): the table differences
\* of the compute and database lists are ints, the other two lists hold floats
sum_int_savings(recs) ==
    FoldLeft(LAMBDA total, rec : total + rec.monthly_savings, 0, recs)

sum_float_savings(recs) ==
    FoldLeft(LAMBDA total, rec : FAdd(total, rec.monthly_savings), FZero, recs)

\* handler lines 80-85: the sum of the four sums, from the left
total_potential_savings(ec2_recs, rds_recs, s3_recs, ri_recs) ==
    FAdd(FAdd(FromInt(sum_int_savings(ec2_recs) + sum_int_savings(rds_recs)),
              sum_float_savings(s3_recs)),
         sum_float_savings(ri_recs))

\* a threshold that a total equal to it also passes
exceeds_threshold_inclusive(total_savings) == ~FLess(total_savings, COST_THRESHOLD)

\* handler line 89: total_savings > COST_THRESHOLD
exceeds_threshold(total_savings) == FLess(COST_THRESHOLD, total_savings)

InitialRecommendations ==
    [ec2_recommendations |-> <<>>, rds_recommendations |-> <<>>,
     s3_recommendations |-> <<>>, reserved_instance_recommendations |-> <<>>,
     cost_summary |-> [current_month_total |-> FZero],
     total_potential_savings |-> FZero]

\* the steps of the handler, in order (lines 61-97)
cost_steps == <<"cost_summary", "ec2", "rds", "s3", "reserved", "total", "return", "done">>

AfterCost(step) ==
    cost_steps[(CHOOSE j \in DOMAIN cost_steps : cost_steps[j] = step) + 1]

\* ---- the account of an invocation ----------------------------------------

OneDatapoint(v) == [Datapoints |-> <<[Average |-> v]>>, raises |-> FALSE]

\* describe_instances raises, or lists idle instances
HandlerEc2 ==
    { [describe_raises |-> TRUE, Reservations |-> <<>>] }
    \cup UNION { { [describe_raises |-> FALSE,
                    Reservations |->
                        IF n = 0 THEN <<>>
                        ELSE << [Instances |->
                                   [k \in 1..n |->
                                      CostInstance(k, types[k], OneDatapoint(10))]] >>] :
                   types \in [1..n -> CostInstanceTypes] } :
                 n \in 0..MaxCostInstances }

\* describe_db_instances raises, or lists available idle instances with few
\* connections
HandlerRds ==
    { [describe_raises |-> TRUE, DBInstances |-> <<>>] }
    \cup UNION { { [describe_raises |-> FALSE,
                    DBInstances |->
                        [k \in 1..n |->
                           CostDbInstance(k, [status |-> "available", class |-> classes[k],
                                              allocated |-> 4, cpu |-> OneDatapoint(10),
                                              connections |-> OneDatapoint(1)])]] :
                   classes \in [1..n -> DbClasses] } :
                 n \in 0..MaxCostInstances }

\* objects of one GiB, modified 40 days ago
ObjectLists ==
    UNION { [1..n -> {[Size |-> 1073741824, age_days |-> 40]}] : n \in 1..MaxObjects }

BucketNames == { ProjectNameChars \o <<"-", "l", "o", "g", "s">>, <<"l", "o", "g", "s">> }

\* whether the client has the exception class matters where the request raises
CostBuckets ==
    [Name : BucketNames, lifecycle : {"rules", "no_rules", "raises"},
     list_objects_raises : {FALSE}, Contents : ObjectLists]

HandlerS3 ==
    { [list_buckets_raises |-> TRUE, exception_class_known |-> TRUE, Buckets |-> <<>>] }
    \cup { s3 : s3 \in
             { r \in UNION { [list_buckets_raises : {FALSE},
                              exception_class_known : BOOLEAN,
                              Buckets : [1..n -> CostBuckets]] : n \in 0..MaxCostBuckets } :
                 r.exception_class_known \/ \E b \in Range(r.Buckets) : b.lifecycle = "raises" } }

\* the savings of one purchase recommendation: 5, 10, 10.5, absent, no number
RiAmounts ==
    { [kind |-> "number", num |-> 5, den |-> 1], [kind |-> "number", num |-> 10, den |-> 1],
      [kind |-> "number", num |-> 21, den |-> 2],
      [kind |-> "absent", num |-> 0, den |-> 1], [kind |-> "invalid", num |-> 0, den |-> 1] }

HandlerCe ==
    { [recommendation_raises |-> TRUE, Recommendations |-> <<>>,
       cost_raises |-> TRUE, Amounts |-> <<>>] }
    \cup UNION { [recommendation_raises : {FALSE},
                  Recommendations : [1..n -> [InstanceType : {"t3.large"}, amount : RiAmounts]],
                  cost_raises : {FALSE},
                  Amounts : { <<[num |-> 25, den |-> 2]>> }] :
                n \in 0..MaxRiRecommendations }

\* SNS_TOPIC_ARN is empty, or sns.publish succeeds, or sns.publish raises
HandlerSns ==
    { [SNS_TOPIC_ARN |-> "", publish_raises |-> FALSE],
      [SNS_TOPIC_ARN |-> "arn:aws:sns:cost", publish_raises |-> FALSE],
      [SNS_TOPIC_ARN |-> "arn:aws:sns:cost", publish_raises |-> TRUE] }

CostAccounts == [ec2 : HandlerEc2, rds : HandlerRds, s3 : HandlerS3, ce : HandlerCe,
                 sns : HandlerSns]

NoCostAccount ==
    [ec2 |-> [describe_raises |-> FALSE, Reservations |-> <<>>],
     rds |-> [describe_raises |-> FALSE, DBInstances |-> <<>>],
     s3  |-> [list_buckets_raises |-> FALSE, exception_class_known |-> TRUE, Buckets |-> <<>>],
     ce  |-> [recommendation_raises |-> FALSE, Recommendations |-> <<>>,
              cost_raises |-> FALSE, Amounts |-> <<>>],
     sns |-> [SNS_TOPIC_ARN |-> "", publish_raises |-> FALSE]]

\* ---- the invocation -------------------------------------------------------

InitCost ==
    /\ cost_account \in CostAccounts
    /\ cost_pc = cost_steps[1]
    /\ cost_report = InitialRecommendations
    /\ notification_attempts = 0
    /\ cost_messages = <<>>
    /\ cost_response = NoResponse

\* handler line 61
GetCostSummary ==
    /\ cost_pc = "cost_summary"
    /\ cost_report' = [cost_report EXCEPT !.cost_summary = get_cost_summary(cost_account.ce)]
    /\ cost_pc' = AfterCost("cost_summary")
    /\ UNCHANGED << cost_account, notification_attempts, cost_messages, cost_response >>
    /\ UNCHANGED not_cost_vars

\* handler lines 64-65
AnalyzeEc2Instances ==
    /\ cost_pc = "ec2"
    /\ cost_report' = [cost_report EXCEPT
                          !.ec2_recommendations = analyze_ec2_instances(cost_account.ec2)]
    /\ cost_pc' = AfterCost("ec2")
    /\ UNCHANGED << cost_account, notification_attempts, cost_messages, cost_response >>
    /\ UNCHANGED not_cost_vars

\* handler lines 68-69
AnalyzeRdsInstances ==
    /\ cost_pc = "rds"
    /\ cost_report' = [cost_report EXCEPT
                          !.rds_recommendations = analyze_rds_instances(cost_account.rds)]
    /\ cost_pc' = AfterCost("rds")
    /\ UNCHANGED << cost_account, notification_attempts, cost_messages, cost_response >>
    /\ UNCHANGED not_cost_vars

\* handler lines 72-73
AnalyzeS3Storage ==
    /\ cost_pc = "s3"
    /\ cost_report' = [cost_report EXCEPT
                          !.s3_recommendations = analyze_s3_storage(cost_account.s3)]
    /\ cost_pc' = AfterCost("s3")
    /\ UNCHANGED << cost_account, notification_attempts, cost_messages, cost_response >>
    /\ UNCHANGED not_cost_vars

\* handler lines 76-77
GetReservedInstanceRecommendations ==
    /\ cost_pc = "reserved"
    /\ cost_report' = [cost_report EXCEPT
                          !.reserved_instance_recommendations =
                              get_reserved_instance_recommendations(cost_account.ce)]
    /\ cost_pc' = AfterCost("reserved")
    /\ UNCHANGED << cost_account, notification_attempts, cost_messages, cost_response >>
    /\ UNCHANGED not_cost_vars

\* handler lines 80-90: the total, and send_recommendations_notification
\* (lines 538-588) when it exceeds the threshold: nothing is published
\* without a topic, and an exception of sns.publish is logged
CalculateTotalSavings ==
    /\ cost_pc = "total"
    /\ LET total_savings ==
               total_potential_savings(cost_report.ec2_recommendations,
                                       cost_report.rds_recommendations,
                                       cost_report.s3_recommendations,
                                       cost_report.reserved_instance_recommendations)
           report == [cost_report EXCEPT !.total_potential_savings = total_savings]
       IN  /\ cost_report' = report
           /\ IF exceeds_threshold(total_savings)
              THEN /\ notification_attempts' = notification_attempts + 1
                   /\ cost_messages' =
                        IF cost_account.sns.SNS_TOPIC_ARN # ""
                           /\ ~cost_account.sns.publish_raises
                        THEN Append(cost_messages, report)
                        ELSE cost_messages
              ELSE UNCHANGED << notification_attempts, cost_messages >>
    /\ cost_pc' = AfterCost("total")
    /\ UNCHANGED << cost_account, cost_response >>
    /\ UNCHANGED not_cost_vars

\* handler lines 94-97.  No call of the try block raises to the handler, so
\* the except clause of lines 99-109 is never entered.
CostReturn ==
    /\ cost_pc = "return"
    /\ cost_response' = [statusCode |-> 200, body |-> cost_report]
    /\ cost_pc' = AfterCost("return")
    /\ UNCHANGED << cost_account, cost_report, notification_attempts, cost_messages >>
    /\ UNCHANGED not_cost_vars

NextCost ==
    \/ GetCostSummary
    \/ AnalyzeEc2Instances
    \/ AnalyzeRdsInstances
    \/ AnalyzeS3Storage
    \/ GetReservedInstanceRecommendations
    \/ CalculateTotalSavings
    \/ CostReturn

(***************************************************************************)
(* The specifications: one handler, or the score function, runs; the       *)
(* variables of the others stay as they are.                               *)
(***************************************************************************)
BackupIdle ==
    /\ now = StartTime
    /\ rds_instances = <<>>
    /\ rds_clusters = <<>>
    /\ rds_snapshots = <<>>
    /\ rds_cluster_snapshots = <<>>
    /\ deleted_snapshots = {}
    /\ backup_pc = "idle"
    /\ idx = 0
    /\ db_instances = <<>>
    /\ db_clusters = <<>>
    /\ snapshots = <<>>
    /\ cutoff_date = Naive(0)
    /\ cleanup_results = <<>>
    /\ backup_results = [db_instances |-> <<>>, db_clusters |-> <<>>,
                         cleanup_results |-> <<>>, errors |-> <<>>]
    /\ error_msg = <<>>
    /\ requests = <<>>
    /\ sns_messages = <<>>
    /\ backup_response = NoResponse

ComplianceIdle ==
    /\ account = EmptyAccount
    /\ SNS_TOPIC_ARN = ""
    /\ compliance_pc = "idle"
    /\ custom_checks = EmptyDict
    /\ compliance_report = InitialReport
    /\ raised = {}
    /\ notification_calls = 0
    /\ compliance_requests = <<>>
    /\ compliance_response = NoResponse

ScoreIdle ==
    /\ score_args = [config_status |-> config_zero, custom_checks |-> EmptyDict]
    /\ score_result = NoScore

IdIdle ==
    /\ id_args = [first |-> [source |-> <<>>, time |-> StartTime],
                  second |-> [source |-> <<>>, time |-> StartTime]]
    /\ id_result = NoIds

RelayIdle ==
    /\ webhook_url = ""
    /\ event = [Records |-> <<>>]
    /\ relay_pc = "idle"
    /\ relay_idx = 0
    /\ posts = <<>>
    /\ relay_response = NoResponse

SavingsIdle == savings_call = NoSavings

AnalysisIdle == ec2_call = NoEc2Call /\ rds_call = NoRdsCall

CostIdle ==
    /\ cost_account = NoCostAccount
    /\ cost_pc = "idle"
    /\ cost_report = InitialRecommendations
    /\ notification_attempts = 0
    /\ cost_messages = <<>>
    /\ cost_response = NoResponse

RaceIdle ==
    /\ race_now = StartTime
    /\ race_account = [instance |-> <<>>, cluster |-> <<>>]
    /\ service = [instance |-> <<>>, cluster |-> <<>>]
    /\ runs = <<>>
    /\ lost = <<>>
    /\ race_messages = {}

RetentionIdle == retention_call = NoRetentionCall

NotifyIdle == notify_call = NoNotifyCall

\* the Backup Rotator is invoked
InitBackupRun ==
    /\ InitBackup
    /\ ComplianceIdle
    /\ ScoreIdle
    /\ IdIdle
    /\ RelayIdle
    /\ SavingsIdle
    /\ AnalysisIdle
    /\ CostIdle
    /\ RaceIdle
    /\ RetentionIdle
    /\ NotifyIdle

SpecBackup == InitBackupRun /\ [][NextBackup]_vars

\* the Compliance Scorer is invoked
InitComplianceRun ==
    /\ InitCompliance
    /\ BackupIdle
    /\ ScoreIdle
    /\ IdIdle
    /\ RelayIdle
    /\ SavingsIdle
    /\ AnalysisIdle
    /\ CostIdle
    /\ RaceIdle
    /\ RetentionIdle
    /\ NotifyIdle

SpecCompliance == InitComplianceRun /\ [][NextCompliance]_vars

\* calculate_compliance_score is called
InitScoreCall ==
    /\ InitScore
    /\ BackupIdle
    /\ ComplianceIdle
    /\ IdIdle
    /\ RelayIdle
    /\ SavingsIdle
    /\ AnalysisIdle
    /\ CostIdle
    /\ RaceIdle
    /\ RetentionIdle
    /\ NotifyIdle

SpecScore == InitScoreCall /\ [][NextScore]_vars

\* two snapshot identifiers are computed
InitSnapshotIdCall ==
    /\ InitSnapshotId
    /\ BackupIdle
    /\ ComplianceIdle
    /\ ScoreIdle
    /\ RelayIdle
    /\ SavingsIdle
    /\ AnalysisIdle
    /\ CostIdle
    /\ RaceIdle
    /\ RetentionIdle
    /\ NotifyIdle

SpecSnapshotId == InitSnapshotIdCall /\ [][NextSnapshotId]_vars

\* the Notification Relay is invoked
InitRelayRun ==
    /\ InitRelay
    /\ BackupIdle
    /\ ComplianceIdle
    /\ ScoreIdle
    /\ IdIdle
    /\ SavingsIdle
    /\ AnalysisIdle
    /\ CostIdle
    /\ RaceIdle
    /\ RetentionIdle
    /\ NotifyIdle

SpecRelay == InitRelayRun /\ [][NextRelay]_vars

\* estimate_instance_cost_savings is called
InitSavingsCall ==
    /\ InitSavings
    /\ BackupIdle
    /\ ComplianceIdle
    /\ ScoreIdle
    /\ IdIdle
    /\ RelayIdle
    /\ AnalysisIdle
    /\ CostIdle
    /\ RaceIdle
    /\ RetentionIdle
    /\ NotifyIdle

SpecSavings == InitSavingsCall /\ [][NextSavings]_vars

\* analyze_ec2_instances is called
InitEc2Call ==
    /\ InitEc2
    /\ BackupIdle
    /\ ComplianceIdle
    /\ ScoreIdle
    /\ IdIdle
    /\ RelayIdle
    /\ SavingsIdle
    /\ CostIdle
    /\ RaceIdle
    /\ RetentionIdle
    /\ NotifyIdle

SpecEc2 == InitEc2Call /\ [][NextEc2]_vars

\* analyze_rds_instances is called
InitRdsCall ==
    /\ InitRds
    /\ BackupIdle
    /\ ComplianceIdle
    /\ ScoreIdle
    /\ IdIdle
    /\ RelayIdle
    /\ SavingsIdle
    /\ CostIdle
    /\ RaceIdle
    /\ RetentionIdle
    /\ NotifyIdle

SpecRds == InitRdsCall /\ [][NextRds]_vars

\* the Cost Optimizer is invoked
InitCostRun ==
    /\ InitCost
    /\ BackupIdle
    /\ ComplianceIdle
    /\ ScoreIdle
    /\ IdIdle
    /\ RelayIdle
    /\ SavingsIdle
    /\ AnalysisIdle
    /\ RaceIdle
    /\ RetentionIdle
    /\ NotifyIdle

SpecCost == InitCostRun /\ [][NextCost]_vars

\* two invocations of the Backup Rotator overlap
InitRaceRun ==
    /\ InitRace
    /\ BackupIdle
    /\ ComplianceIdle
    /\ ScoreIdle
    /\ IdIdle
    /\ RelayIdle
    /\ SavingsIdle
    /\ AnalysisIdle
    /\ CostIdle
    /\ RetentionIdle
    /\ NotifyIdle

SpecRace == InitRaceRun /\ [][NextRace]_vars

\* the cleanup meets a snapshot of its own run
InitRetentionCall ==
    /\ InitRetention
    /\ BackupIdle
    /\ ComplianceIdle
    /\ ScoreIdle
    /\ IdIdle
    /\ RelayIdle
    /\ SavingsIdle
    /\ AnalysisIdle
    /\ CostIdle
    /\ RaceIdle
    /\ NotifyIdle

\* a run of the Backup Rotator, or its cleanup under any retention
InitSameRun == InitBackupRun \/ InitRetentionCall

NextSameRun == NextBackup \/ NextRetention

SpecSameRun == InitSameRun /\ [][NextSameRun]_vars

\* send_compliance_notification is called
InitNotifyCall ==
    /\ InitNotify
    /\ BackupIdle
    /\ ComplianceIdle
    /\ ScoreIdle
    /\ IdIdle
    /\ RelayIdle
    /\ SavingsIdle
    /\ AnalysisIdle
    /\ CostIdle
    /\ RaceIdle
    /\ RetentionIdle

\* the Compliance Scorer is invoked, or its notification is sent for a report
\* of any score
InitSeverity == InitComplianceRun \/ InitNotifyCall

NextSeverity == NextCompliance \/ NextNotify

SpecSeverity == InitSeverity /\ [][NextSeverity]_vars

\* one of the four handlers is invoked; the Compliance Scorer and the Cost
\* Optimizer, which have no failing path, on accounts without some resources
InitHandlers ==
    \/ InitBackupRun
    \/ /\ InitComplianceRun
       /\ account.SecurityGroups = <<>>
       /\ account.DBInstances = <<>>
       /\ account.Volumes = <<>>
    \/ InitRelayRun
    \/ /\ InitCostRun
       /\ cost_account.ec2.Reservations = <<>>
       /\ cost_account.rds.DBInstances = <<>>

NextHandlers ==
    \/ NextBackup
    \/ NextCompliance
    \/ NextRelay
    \/ NextCost

SpecHandlers == InitHandlers /\ [][NextHandlers]_vars

(***************************************************************************)
(* Properties of the Backup Rotator.                                       *)
(***************************************************************************)

DeleteOps == {"delete_db_snapshot", "delete_db_cluster_snapshot"}

CreateOps == {"create_db_snapshot", "create_db_cluster_snapshot"}

CleanupOps == {"describe_db_snapshots", "describe_db_cluster_snapshots"} \cup DeleteOps

Sent(op) == { i \in DOMAIN requests : requests[i].op = op }

HasAutomatedTag(sn) ==
    /\ "TagList" \in DOMAIN sn
    /\ \E i \in DOMAIN sn.TagList :
         sn.TagList[i].Key = "BackupType" /\ sn.TagList[i].Value = "Automated"

HasBackupName(sn) ==
    \E key \in {"DBSnapshotIdentifier", "DBClusterSnapshotIdentifier"} \cap DOMAIN sn :
        "-backup-" \in Range(sn[key])

DeleteRequested(sn) ==
    \E i \in DOMAIN requests : requests[i].op \in DeleteOps /\ requests[i].arg = sn

\* the snapshots of the enumerated list that the cleanup loop has passed
Processed ==
    IF backup_pc \in {"cleanup_instance_snapshots", "cleanup_cluster_snapshots"}
    THEN { snapshots[i] : i \in 1..(idx - 1) }
    ELSE IF backup_pc \in {"cleanup_clusters", "cleanup_return"}
    THEN Range(snapshots)
    ELSE {}

\* C1: a delete request is issued only for a snapshot that carries the
\* automated-backup marker (tag BackupType=Automated, or '-backup-' in its
\* identifier) and whose creation time is strictly older than the cutoff,
\* which is the clock of this run minus the retention; every snapshot the
\* service deleted was deleted by such a request.
C1_DeleteOnlyMarkedAndExpired ==
    /\ \A i \in DOMAIN requests :
         requests[i].op \in DeleteOps =>
           /\ HasAutomatedTag(requests[i].arg) \/ HasBackupName(requests[i].arg)
           /\ requests[i].arg.SnapshotCreateTime.t < cutoff_date.t
           /\ cutoff_date.t + RetentionTicks \in StartTime..now
    /\ \A d \in deleted_snapshots :
         \E i \in DOMAIN requests :
           /\ requests[i].ok
           /\ \/ /\ d[1] = "instance_snapshot"
                 /\ requests[i].op = "delete_db_snapshot"
                 /\ requests[i].arg.DBSnapshotIdentifier = d[2]
              \/ /\ d[1] = "cluster_snapshot"
                 /\ requests[i].op = "delete_db_cluster_snapshot"
                 /\ requests[i].arg.DBClusterSnapshotIdentifier = d[2]

\* a finished run that deleted an instance snapshot and a cluster snapshot
C1_Witness ==
    /\ backup_pc = "done"
    /\ \E d, e \in deleted_snapshots : d[1] = "instance_snapshot" /\ e[1] = "cluster_snapshot"

\* C2: a snapshot tagged BackupType=Automated that the enumeration returned
\* is not sent a delete request when its creation time equals the cutoff,
\* and is sent one when it is one second older.
C2_StrictCutoff ==
    \A sn \in Processed :
      HasAutomatedTag(sn) =>
        /\ sn.SnapshotCreateTime.t = cutoff_date.t => ~DeleteRequested(sn)
        /\ sn.SnapshotCreateTime.t = cutoff_date.t - TicksPerSecond => DeleteRequested(sn)

\* the cluster loop has passed a tagged snapshot created exactly at the
\* cutoff without a delete request, after the instance loop deleted a tagged
\* snapshot one second older than the cutoff
C2_Witness ==
    /\ backup_pc = "cleanup_return"
    /\ \E sn \in Processed :
         /\ HasAutomatedTag(sn)
         /\ sn.SnapshotCreateTime.t = cutoff_date.t
         /\ ~DeleteRequested(sn)
    /\ \E i \in Sent("delete_db_snapshot") :
         /\ HasAutomatedTag(requests[i].arg)
         /\ requests[i].arg.SnapshotCreateTime.t = cutoff_date.t - TicksPerSecond

EligibleInstances ==
    { inst \in Range(rds_instances) :
        /\ inst.DBInstanceStatus = "available"
        /\ "ReadReplicaSourceDBInstanceIdentifier" \notin DOMAIN inst }

EligibleClusters == { cl \in Range(rds_clusters) : cl.Status = "available" }

CreatesFor(op, key, id) == { i \in Sent(op) : requests[i].arg[key] = id }

Succeeded(op) == { i \in Sent(op) : requests[i].ok }

Failed(op) == { i \in Sent(op) : ~requests[i].ok }

BackupErrors(what) ==
    { i \in DOMAIN backup_results.errors : backup_results.errors[i].what = what }

\* requests, error entries and success records agree, resource by resource
RecordsMatchRequests ==
    /\ \A inst \in Range(rds_instances) :
         LET id == inst.DBInstanceIdentifier
             rq == CreatesFor("create_db_snapshot", "DBInstanceIdentifier", id)
         IN  /\ Cardinality(rq) <= 1
             /\ Cardinality({ i \in rq : ~requests[i].ok }) =
                  Cardinality({ i \in BackupErrors("Failed to backup instance") :
                                  backup_results.errors[i].id = id })
             /\ Cardinality({ i \in rq : requests[i].ok }) =
                  Cardinality({ i \in DOMAIN backup_results.db_instances :
                                  backup_results.db_instances[i].instance_id = id })
    /\ \A cl \in Range(rds_clusters) :
         LET id == cl.DBClusterIdentifier
             rq == CreatesFor("create_db_cluster_snapshot", "DBClusterIdentifier", id)
         IN  /\ Cardinality(rq) <= 1
             /\ Cardinality({ i \in rq : ~requests[i].ok }) =
                  Cardinality({ i \in BackupErrors("Failed to backup cluster") :
                                  backup_results.errors[i].id = id })
             /\ Cardinality({ i \in rq : requests[i].ok }) =
                  Cardinality({ i \in DOMAIN backup_results.db_clusters :
                                  backup_results.db_clusters[i].cluster_id = id })
    /\ Len(backup_results.db_instances) = Cardinality(Succeeded("create_db_snapshot"))
    /\ Len(backup_results.db_clusters) = Cardinality(Succeeded("create_db_cluster_snapshot"))
    /\ Cardinality(BackupErrors("Failed to backup instance")) =
         Cardinality(Failed("create_db_snapshot"))
    /\ Cardinality(BackupErrors("Failed to backup cluster")) =
         Cardinality(Failed("create_db_cluster_snapshot"))

AllInstancesRequested ==
    \A inst \in EligibleInstances :
      Cardinality(CreatesFor("create_db_snapshot", "DBInstanceIdentifier",
                             inst.DBInstanceIdentifier)) = 1

AllClustersRequested ==
    \A cl \in EligibleClusters :
      Cardinality(CreatesFor("create_db_cluster_snapshot", "DBClusterIdentifier",
                             cl.DBClusterIdentifier)) = 1

\* C3 as stated: in a finished run every eligible instance and every eligible
\* cluster has received exactly one create-snapshot request, and the error
\* entries and success records match the failed and successful requests.
C3_EveryResourceRequested ==
    backup_pc = "done" =>
      AllInstancesRequested /\ AllClustersRequested /\ RecordsMatchRequests

\* C3 amended: once its enumeration has succeeded and its loop has ended,
\* every eligible instance (cluster) has received exactly one create-snapshot
\* request, whatever the outcome of the other requests; no resource ever
\* receives two; each failed request has exactly one error entry and each
\* successful request exactly one success record.
C3_EveryEnumeratedResourceRequested ==
    /\ (Succeeded("describe_db_instances") # {}
          /\ backup_pc \notin {"get_instances", "backup_instances"})
         => AllInstancesRequested
    /\ (Succeeded("describe_db_clusters") # {}
          /\ backup_pc \notin {"get_clusters", "backup_clusters"})
         => AllClustersRequested
    /\ RecordsMatchRequests

\* a finished run in which one create-snapshot request failed and a later
\* resource was still snapshotted
C3_Witness ==
    /\ backup_pc = "done"
    /\ backup_response.statusCode = 200
    /\ \E i \in Failed("create_db_snapshot") :
         \E j \in Succeeded("create_db_snapshot") \cup Succeeded("create_db_cluster_snapshot") :
           i < j

\* C4: every instance create-snapshot request precedes every cluster
\* create-snapshot request, and every create-snapshot request precedes every
\* enumeration and delete request of the cleanup.
C4_StepOrder ==
    \A i, j \in DOMAIN requests :
      i < j =>
        /\ ~(requests[i].op = "create_db_cluster_snapshot"
               /\ requests[j].op = "create_db_snapshot")
        /\ ~(requests[i].op \in CleanupOps /\ requests[j].op \in CreateOps)

\* a finished run that sent instance and cluster create requests and a delete
C4_Witness ==
    /\ backup_pc = "done"
    /\ Sent("create_db_snapshot") # {}
    /\ Sent("create_db_cluster_snapshot") # {}
    /\ Sent("delete_db_snapshot") # {}

CleanupExecuted == Sent("describe_db_snapshots") # {}

EnumerationsSucceeded ==
    Succeeded("describe_db_instances") # {} /\ Succeeded("describe_db_clusters") # {}

\* C5 as stated: every finished run has executed the cleanup.
C5_CleanupInEveryRun == backup_pc = "done" => CleanupExecuted

\* C5 amended: a finished run in which both enumerations succeeded has
\* executed the cleanup, whatever the outcome of its create-snapshot requests,
\* and only the notification follows the cleanup; a run in which an
\* enumeration raised returns 500 without cleanup.
C5_CleanupUnlessEnumerationFails ==
    /\ backup_pc = "done" =>
         IF EnumerationsSucceeded
         THEN CleanupExecuted /\ backup_response.statusCode = 200
         ELSE ~CleanupExecuted /\ backup_response.statusCode = 500
    /\ \A i, j \in DOMAIN requests :
         (i < j /\ requests[i].op \in CleanupOps) =>
            requests[j].op \in CleanupOps \cup {"publish"}

\* a finished run in which every create-snapshot request failed and the
\* cleanup still deleted a snapshot
C5_Witness ==
    /\ backup_pc = "done"
    /\ Failed("create_db_snapshot") # {}
    /\ Failed("create_db_cluster_snapshot") # {}
    /\ Succeeded("create_db_snapshot") \cup Succeeded("create_db_cluster_snapshot") = {}
    /\ deleted_snapshots # {}

\* C6: a run attempts exactly one publish: the summary when the body
\* completes (200), the error notification when the body throws (500).
C6_OneNotification ==
    /\ Cardinality(Sent("publish")) <= 1
    /\ backup_pc = "done" =>
         /\ Cardinality(Sent("publish")) = 1
         /\ backup_response.statusCode \in {200, 500}
         /\ \A i \in Sent("publish") :
              /\ requests[i].arg.kind = "summary" <=> backup_response.statusCode = 200
              /\ requests[i].arg.kind = "error" <=> backup_response.statusCode = 500
              /\ requests[i].arg.kind = "error" <=>
                   Failed("describe_db_instances") \cup Failed("describe_db_clusters") # {}

\* a run whose summary publish raised: it returned 200 and published no more
C6_Witness ==
    /\ backup_pc = "done"
    /\ backup_response.statusCode = 200
    /\ \E i \in Failed("publish") : requests[i].arg.kind = "summary"
\* C18: the identifiers of two backups are equal exactly when the source is
\* the same and the two clocks read the same second; they differ when the
\* sources differ in the same second, and when the same source is backed up
\* at clocks one second or more apart.
C18_DistinctIdentifiers ==
    id_result.returned =>
      LET a == id_args.first
          b == id_args.second
          same_second == a.time \div TicksPerSecond = b.time \div TicksPerSecond
          apart == IF a.time < b.time THEN b.time - a.time ELSE a.time - b.time
      IN  /\ (id_result.first = id_result.second) <=> (a.source = b.source /\ same_second)
          /\ (a.source # b.source /\ same_second) => id_result.first # id_result.second
          /\ (a.source = b.source /\ apart >= TicksPerSecond)
                => id_result.first # id_result.second

\* the same source backed up at two clocks exactly one second apart: two
\* identifiers
C18_Witness ==
    /\ id_result.returned
    /\ id_args.first.source = id_args.second.source
    /\ id_args.second.time = id_args.first.time + TicksPerSecond
    /\ id_result.first # id_result.second

\* C20: a create-snapshot request is issued only for an instance of the
\* account whose status is 'available' and that is not a read replica, and
\* only for a cluster of the account whose status is 'available'.
C20_OnlyEligibleSnapshotted ==
    /\ \A i \in Sent("create_db_snapshot") :
         \E inst \in EligibleInstances :
           inst.DBInstanceIdentifier = requests[i].arg.DBInstanceIdentifier
    /\ \A i \in Sent("create_db_cluster_snapshot") :
         \E cl \in EligibleClusters :
           cl.DBClusterIdentifier = requests[i].arg.DBClusterIdentifier

\* a finished run over an account with a read replica, a cluster that is not
\* available or a stopped instance, in which an available instance was
\* snapshotted
C20_Witness ==
    /\ backup_pc = "done"
    /\ Sent("create_db_snapshot") # {}
    /\ \E inst \in Range(rds_instances) :
         "ReadReplicaSourceDBInstanceIdentifier" \in DOMAIN inst
    /\ \E cl \in Range(rds_clusters) : cl.Status # "available"


(***************************************************************************)
(* Properties of the Compliance Scorer.                                    *)
(***************************************************************************)

\* The six categories in the order rules, tagging, security groups, bucket
\* policy, encryption, public access: the weights in hundredths, and each
\* category's evaluated and compliant resources.
CategoryWeights == <<40, 15, 15, 15, 10, 5>>

Categories(config_status, checks) ==
    << [total |-> config_status.total_rules,
        compliant |-> config_status.compliant_rules],
       [total |-> checks.tagging_compliance.total_resources,
        compliant |-> checks.tagging_compliance.compliant_resources],
       [total |-> checks.security_groups.total_security_groups,
        compliant |-> checks.security_groups.compliant_security_groups],
       [total |-> checks.s3_bucket_policies.total_buckets,
        compliant |-> checks.s3_bucket_policies.compliant_buckets],
       [total |-> checks.encryption_status.total_resources,
        compliant |-> checks.encryption_status.encrypted_resources],
       [total |-> checks.public_access.total_resources,
        compliant |-> checks.public_access.private_resources] >>

Evaluated(cats) == { i \in DOMAIN cats : cats[i].total > 0 }

RECURSIVE TotalsProduct(_, _)
TotalsProduct(cats, S) ==
    IF S = {} THEN 1
    ELSE LET i == CHOOSE j \in S : TRUE
         IN  cats[i].total * TotalsProduct(cats, S \ {i})

RECURSIVE WeightsSum(_)
WeightsSum(S) ==
    IF S = {} THEN 0
    ELSE LET i == CHOOSE j \in S : TRUE IN CategoryWeights[i] + WeightsSum(S \ {i})

\* sum over i in S of percentage(i) * weight(i), times the product of the
\* totals of the evaluated categories E
RECURSIVE ScaledScoreSum(_, _, _)
ScaledScoreSum(cats, S, E) ==
    IF S = {} THEN 0
    ELSE LET i == CHOOSE j \in S : TRUE
         IN  100 * cats[i].compliant * CategoryWeights[i] * TotalsProduct(cats, E \ {i})
             + ScaledScoreSum(cats, S \ {i}, E)

\* the weighted mean as a fraction num / den
MeanNum(cats) == ScaledScoreSum(cats, Evaluated(cats), Evaluated(cats))

MeanDen(cats) == WeightsSum(Evaluated(cats)) * TotalsProduct(cats, Evaluated(cats))

\* |a - b| for two naturals
BDist(a, b) == IF BCmp(a, b) >= 0 THEN BSub(a, b) ELSE BSub(b, a)

\* the double f is num / den up to binary64 rounding: the relative error is
\* at most 2^-50 (num, den > 0)
WithinRounding(f, num, den) ==
    /\ f.m # <<>>
    /\ LET lhs == BMul(BShl(f.m, IF f.e > 0 THEN f.e ELSE 0), IntToB(den))
           rhs == BShl(IntToB(num), IF f.e < 0 THEN -f.e ELSE 0)
       IN  BCmp(BShl(BDist(lhs, rhs), 50), rhs) <= 0

\* the double f is the weighted mean of the categories
IsWeightedMean(f, cats) ==
    IF Evaluated(cats) = {} \/ MeanNum(cats) = 0 THEN f.m = <<>>
    ELSE WithinRounding(f, MeanNum(cats), MeanDen(cats))

\* rules 8/10 with the five checks at 100%, and with the five checks empty
RulesEightOfTen(cats) == cats[1].total = 10 /\ cats[1].compliant = 8

ChecksAllCompliant(cats) ==
    \A i \in 2..6 : cats[i].total > 0 /\ cats[i].compliant = cats[i].total

ChecksAllEmpty(cats) == \A i \in 2..6 : cats[i].total = 0

\* C7: calculate_compliance_score returns the sum of percentage x weight over
\* the categories with at least one evaluated resource, divided by the sum of
\* their weights (0.40, 0.15, 0.15, 0.15, 0.10, 0.05), as binary64 arithmetic
\* computes it (within 2^-50 of the exact quotient); a category with zero
\* total adds nothing, the result is 0.0 when no category has resources,
\* rules 8/10 with all checks at 100% gives exactly 92.0 and rules 8/10 with
\* all checks empty gives exactly 80.0.
C7_ScoreIsWeightedMean ==
    score_result.returned =>
        LET cats == Categories(score_args.config_status, score_args.custom_checks)
        IN  /\ IsWeightedMean(score_result.value, cats)
            /\ Evaluated(cats) = {} => score_result.value = FZero
            /\ RulesEightOfTen(cats) /\ ChecksAllCompliant(cats)
                   => score_result.value = FromInt(92)
            /\ RulesEightOfTen(cats) /\ ChecksAllEmpty(cats)
                   => score_result.value = FromInt(80)

C7_Witness ==
    /\ score_result.returned
    /\ LET cats == Categories(score_args.config_status, score_args.custom_checks)
       IN  RulesEightOfTen(cats) /\ ChecksAllCompliant(cats)
    /\ score_result.value = FromInt(92)

\* the score of the handler's report, once computed
ScoreComputed == compliance_pc \in {"recommendations", "threshold", "done"}

\* C8: the compliance_score of every report the handler produces lies in the
\* closed interval [0, 100].
C8_ScoreWithinZeroAndHundred ==
    ScoreComputed =>
        /\ FCmp(FZero, compliance_report.compliance_score) <= 0
        /\ FCmp(compliance_report.compliance_score, FromInt(100)) <= 0

NotificationAttempted == notification_calls > 0 \/ compliance_requests # <<>>

\* C9: a compliance notification is attempted only when the computed score
\* is strictly below 90; a score of 90 or more never triggers one.
C9_NotifyOnlyBelowNinety ==
    NotificationAttempted => FLess(compliance_report.compliance_score, FromInt(90))

C9_Witness ==
    /\ compliance_pc = "done"
    /\ \E i \in DOMAIN compliance_requests : compliance_requests[i].op = "publish"
    /\ FLess(compliance_report.compliance_score, FromInt(90))

FetchNames ==
    {"config_rules_status", "tagging_compliance", "security_groups",
     "s3_bucket_policies", "encryption_status", "public_access"}

\* the result of a fetch, once it has run
Fetched(name) ==
    IF name = "config_rules_status"
    THEN compliance_pc \notin {"idle", "config_rules_status"}
    ELSE name \in DOMAIN custom_checks

ResultOf(name) ==
    IF name = "config_rules_status" THEN compliance_report.config_rules_status
    ELSE custom_checks[name]

\* what the fetch returns for the account when none of its calls raises
Unfailed(name) ==
    CASE name = "config_rules_status" -> get_config_rules_compliance(account, 0)
      [] name = "tagging_compliance"  -> check_resource_tagging(account, 0)
      [] name = "security_groups"     -> check_security_groups(account, 0)
      [] name = "s3_bucket_policies"  -> check_s3_bucket_policies(account, 0)
      [] name = "encryption_status"   -> check_encryption_compliance(account, 0)
      [] name = "public_access"       -> check_public_access_compliance(account, 0)

\* every count is 0 and every list or dict is empty
AllZero(result) ==
    \A key \in DOMAIN result :
        IF key \in {"violations", "rules_detail"} THEN result[key] = <<>>
        ELSE result[key] = 0

\* C10: when a custom check or the rule-compliance fetch raises, that check
\* alone yields the all-zero result with an empty violation list, the results
\* of the other checks are what they are without the failure, and the handler
\* completes with status 200.
C10_FailSoft ==
    /\ \A name \in FetchNames :
         Fetched(name) =>
            IF name \in raised THEN AllZero(ResultOf(name))
            ELSE ResultOf(name) = Unfailed(name)
    /\ compliance_pc = "done" =>
         /\ compliance_response.statusCode = 200
         /\ compliance_response.body.custom_checks = custom_checks
    /\ compliance_response.statusCode \in {0, 200}

C10_Witness ==
    /\ compliance_pc = "done"
    /\ compliance_response.statusCode = 200
    /\ \E name \in raised :
         /\ ~AllZero(Unfailed(name))
         /\ AllZero(ResultOf(name))
    /\ \E name \in FetchNames \ raised : ~AllZero(ResultOf(name))

(***************************************************************************)
(* Properties of the Notification Relay.                                   *)
(***************************************************************************)
Ok200(post) == ~post.outcome.raised /\ post.outcome.status = 200

\* C12: one POST per envelope, in batch order; the first POST that does not
\* come back with status 200 is the last one and the relay returns 500;
\* the relay returns 200 only when every envelope of the batch was posted
\* and every POST came back with 200.
C12_AbortAtFirstFailure ==
    LET records == event.Records
    IN  /\ Len(posts) <= Len(records)
        /\ \A i \in DOMAIN posts :
             /\ posts[i].body.text = records[i].Sns.Message
             /\ i < Len(posts) => Ok200(posts[i])
        /\ relay_pc = "post" => Len(posts) = relay_idx - 1
        /\ relay_pc = "done" =>
             /\ (\E i \in DOMAIN posts : ~Ok200(posts[i])) => relay_response.statusCode = 500
             /\ relay_response.statusCode = 200 =>
                  /\ Len(posts) = Len(records)
                  /\ \A i \in DOMAIN posts : Ok200(posts[i])
             /\ (webhook_url # "" /\ \A i \in DOMAIN posts : Ok200(posts[i])) =>
                  /\ Len(posts) = Len(records)
                  /\ relay_response.statusCode = 200

\* a batch of three envelopes: the first POST came back with 200, the second
\* with 204, the third envelope was never posted and the relay returned 500
C12_Witness ==
    /\ relay_pc = "done"
    /\ Len(event.Records) = 3
    /\ Len(posts) = 2
    /\ Ok200(posts[1])
    /\ ~posts[2].outcome.raised /\ posts[2].outcome.status = 204
    /\ relay_response.statusCode = 500

\* the topic identifier has 'app-notifications' as a substring
HasAppNotifications(topic) ==
    \E k \in 1..(Len(topic) - Len(AppNotifications) + 1) :
      SubSeq(topic, k, k + Len(AppNotifications) - 1) = AppNotifications

TopicOf(record) ==
    IF "TopicArn" \in DOMAIN record.Sns THEN record.Sns.TopicArn ELSE <<>>

\* C13: the payload posted for an envelope has type 'Application' exactly
\* when the envelope's topic identifier contains 'app-notifications', and
\* 'Infrastructure' otherwise, also when the identifier is missing or empty.
C13_TopicClassification ==
    \A i \in DOMAIN posts :
      posts[i].body.Type = IF HasAppNotifications(TopicOf(event.Records[i]))
                           THEN "Application" ELSE "Infrastructure"

\* a batch in which a topic with 'app-notifications' in the middle of its
\* name was posted as 'Application', an envelope without topic identifier as
\* 'Infrastructure', and a topic named 'app-notification' as 'Infrastructure'
C13_Witness ==
    \E i, j, k \in DOMAIN posts :
      /\ HasAppNotifications(TopicOf(event.Records[i]))
      /\ Len(TopicOf(event.Records[i])) > Len(ArnPrefix) + Len(AppNotifications)
      /\ posts[i].body.Type = "Application"
      /\ "TopicArn" \notin DOMAIN event.Records[j].Sns
      /\ posts[j].body.Type = "Infrastructure"
      /\ TopicOf(event.Records[k]) =
           ArnPrefix \o SubSeq(AppNotifications, 1, Len(AppNotifications) - 1)
      /\ posts[k].body.Type = "Infrastructure"

(***************************************************************************)
(* Properties of the Cost Optimizer.                                       *)
(***************************************************************************)

\* the price of a size in the static price table, 0 for a size it lacks
Price(type) == IF type \in DOMAIN instance_cost_map THEN instance_cost_map[type] ELSE 0

\* C16: estimate_instance_cost_savings(current, suggested) is the price of
\* current minus the price of suggested when that is positive, and 0
\* otherwise; it is never negative; for 't3.large' and 't3.medium' it is 33.
C16_SavingsIsFlooredPriceDifference ==
    savings_call.returned =>
      LET difference == Price(savings_call.current) - Price(savings_call.suggested)
      IN  /\ savings_call.value >= 0
          /\ difference >= 0 => savings_call.value = difference
          /\ difference < 0 => savings_call.value = 0
          /\ (savings_call.current = "t3.large" /\ savings_call.suggested = "t3.medium")
                => savings_call.value = 67 - 34 /\ savings_call.value = 33

\* the call for 't3.large' and 't3.medium' returned 33
C16_Witness ==
    /\ savings_call.returned
    /\ savings_call.current = "t3.large"
    /\ savings_call.suggested = "t3.medium"
    /\ savings_call.value = 33

\* the sum of the hourly averages, and whether their arithmetic mean is
\* strictly below limit percent (no datapoint counts as a mean of 0)
SumOfAverages(datapoints) ==
    FoldLeft(LAMBDA acc, dp : acc + dp.Average, 0, datapoints)

MeanBelow(datapoints, limit) ==
    IF datapoints = <<>> THEN 0 < limit
    ELSE SumOfAverages(datapoints) < limit * Len(datapoints)

Ec2Instances ==
    UNION { Range(ec2_call.ec2.Reservations[r].Instances) :
            r \in DOMAIN ec2_call.ec2.Reservations }

Ec2RecommendationsFor(instance) ==
    { i \in DOMAIN ec2_call.recommendations :
        ec2_call.recommendations[i].instance_id = instance.InstanceId }

HasSmallerType(instance) == instance.InstanceType \in DOMAIN instance_downsize_map

\* C14 as stated: a running project instance gets a downsizing
\* recommendation exactly when the mean of its datapoints (0.0 without
\* datapoints) is strictly below 20 and the downsize table has its size.
C14_RecommendedIffMeanBelowThreshold ==
    ec2_call.returned =>
      \A instance \in Ec2Instances :
        Ec2RecommendationsFor(instance) # {} <=>
          (MeanBelow(instance.metric.Datapoints, 20) /\ HasSmallerType(instance))

\* the utilization the analysis evaluates an instance with: 0.0 when
\* get_metric_statistics raises or returns no datapoint, else the mean
EvaluatedCpuBelow(metric, limit) ==
    IF metric.raises THEN 0 < limit ELSE MeanBelow(metric.Datapoints, limit)

\* C14 amended: when describe_instances succeeds, an instance gets one
\* recommendation, to the size the table gives, exactly when the utilization
\* it is evaluated with (the mean of its datapoints; 0.0 without datapoints
\* and also when the metric call raises) is strictly below 20 and the table
\* has its size; a mean of exactly 20 gives none.  When describe_instances
\* raises, no recommendation is emitted.
C14_RecommendedIffEvaluatedBelowThreshold ==
    ec2_call.returned =>
      IF ec2_call.ec2.describe_raises THEN ec2_call.recommendations = <<>>
      ELSE \A instance \in Ec2Instances :
             LET for == Ec2RecommendationsFor(instance)
             IN  IF EvaluatedCpuBelow(instance.metric, 20) /\ HasSmallerType(instance)
                 THEN /\ Cardinality(for) = 1
                      /\ \A i \in for :
                           ec2_call.recommendations[i].suggested_type =
                             instance_downsize_map[instance.InstanceType]
                 ELSE for = {}

\* a t3.large whose two datapoints 10 and 30 have a mean of exactly 20: no
\* recommendation
C14_Witness ==
    /\ ec2_call.returned
    /\ ~ec2_call.ec2.describe_raises
    /\ ec2_call.recommendations = <<>>
    /\ \E instance \in Ec2Instances :
         /\ instance.InstanceType = "t3.large"
         /\ ~instance.metric.raises
         /\ instance.metric.Datapoints = <<[Average |-> 10], [Average |-> 30]>>

RdsRecommendationsFor(db_instance) ==
    { i \in DOMAIN rds_call.recommendations :
        rds_call.recommendations[i].instance_id = db_instance.DBInstanceIdentifier }

HasSmallerClass(db_instance) == db_instance.DBInstanceClass \in DOMAIN rds_downsize_map

AllocatedOf(db_instance) ==
    IF "AllocatedStorage" \in DOMAIN db_instance THEN db_instance.AllocatedStorage ELSE 0

\* average connections divided by the allocated capacity, as a percentage,
\* strictly below limit (no datapoint, or no capacity, counts as 0)
ConnectionsBelow(datapoints, allocated, limit) ==
    IF datapoints = <<>> \/ allocated <= 0 THEN 0 < limit
    ELSE SumOfAverages(datapoints) * 100 < limit * allocated * Len(datapoints)

\* C15 as stated: a database instance gets a recommendation only if it is
\* available, the mean of its CPU datapoints is strictly below 20, its
\* connection utilization is strictly below 50 and a smaller class is known.
C15_RecommendedOnlyIfBothBelow ==
    rds_call.returned =>
      \A db_instance \in Range(rds_call.rds.DBInstances) :
        RdsRecommendationsFor(db_instance) # {} =>
          /\ db_instance.DBInstanceStatus = "available"
          /\ MeanBelow(db_instance.cpu_metric.Datapoints, 20)
          /\ ConnectionsBelow(db_instance.connection_metric.Datapoints,
                              AllocatedOf(db_instance), 50)
          /\ HasSmallerClass(db_instance)

EvaluatedConnectionsBelow(metric, allocated, limit) ==
    IF metric.raises THEN 0 < limit ELSE ConnectionsBelow(metric.Datapoints, allocated, limit)

\* C15 amended: when describe_db_instances succeeds, a database instance gets
\* one recommendation exactly when it is available, a smaller class is
\* known, and the two utilizations it is evaluated with are strictly below
\* 20 (CPU) and 50 (connections); each is the value computed from the
\* datapoints, and 0.0 without datapoints, without allocated capacity, and
\* when the metric call raises.  When describe_db_instances raises, no
\* recommendation is emitted.
C15_RecommendedIffEvaluatedBothBelow ==
    rds_call.returned =>
      IF rds_call.rds.describe_raises THEN rds_call.recommendations = <<>>
      ELSE \A db_instance \in Range(rds_call.rds.DBInstances) :
             LET for == RdsRecommendationsFor(db_instance)
             IN  IF /\ db_instance.DBInstanceStatus = "available"
                    /\ EvaluatedCpuBelow(db_instance.cpu_metric, 20)
                    /\ EvaluatedConnectionsBelow(db_instance.connection_metric,
                                                 AllocatedOf(db_instance), 50)
                    /\ HasSmallerClass(db_instance)
                 THEN /\ Cardinality(for) = 1
                      /\ \A i \in for :
                           rds_call.recommendations[i].suggested_class =
                             rds_downsize_map[db_instance.DBInstanceClass]
                 ELSE for = {}

\* an available db.t3.large without CPU datapoints (0% CPU) whose average of
\* 2 connections against a capacity of 4 is exactly 50 percent: no
\* recommendation
C15_Witness ==
    /\ rds_call.returned
    /\ ~rds_call.rds.describe_raises
    /\ rds_call.recommendations = <<>>
    /\ \E db_instance \in Range(rds_call.rds.DBInstances) :
         /\ db_instance.DBInstanceStatus = "available"
         /\ db_instance.DBInstanceClass = "db.t3.large"
         /\ ~db_instance.cpu_metric.raises
         /\ db_instance.cpu_metric.Datapoints = <<>>
         /\ ~db_instance.connection_metric.raises
         /\ db_instance.connection_metric.Datapoints = <<[Average |-> 2]>>
         /\ AllocatedOf(db_instance) = 4

\* the savings of one list added up
ListSavings(recs, integral) ==
    IF integral THEN FromInt(sum_int_savings(recs)) ELSE sum_float_savings(recs)

\* the four list sums added up, in the order of the report
SavingsOfReport(report) ==
    FAdd(FAdd(FAdd(ListSavings(report.ec2_recommendations, TRUE),
                   ListSavings(report.rds_recommendations, TRUE)),
              ListSavings(report.s3_recommendations, FALSE)),
         ListSavings(report.reserved_instance_recommendations, FALSE))

\* C17: once the total is computed, total_potential_savings is the sum of
\* monthly_savings over the four recommendation lists; the recommendations
\* notification is attempted only if that total strictly exceeds the
\* threshold of 10 (never for a total equal to it), and what is published
\* carries that total.
C17_TotalIsSumAndNotifiesAboveThreshold ==
    cost_pc \in {"return", "done"} =>
      /\ cost_report.total_potential_savings = SavingsOfReport(cost_report)
      /\ notification_attempts > 0 =>
            FCmp(cost_report.total_potential_savings, FromInt(10)) > 0
      /\ \A i \in DOMAIN cost_messages :
            cost_messages[i].total_potential_savings = SavingsOfReport(cost_report)

\* a finished run whose only recommendation is a reserved-instance purchase
\* saving exactly 10: the total is 10 and nothing is sent
C17_Witness ==
    /\ cost_pc = "done"
    /\ cost_response.statusCode = 200
    /\ cost_account.sns.SNS_TOPIC_ARN # ""
    /\ Len(cost_report.reserved_instance_recommendations) = 1
    /\ cost_report.ec2_recommendations = <<>>
    /\ cost_report.rds_recommendations = <<>>
    /\ cost_report.s3_recommendations = <<>>
    /\ cost_report.total_potential_savings = FromInt(10)
    /\ notification_attempts = 0
    /\ cost_messages = <<>>

\* a request this run lost is in its errors list or among its 'failed'
\* cleanup entries
LostIsRecorded(run, l) ==
    IF l.op = "create"
    THEN \E i \in DOMAIN run.backup_results.errors :
           run.backup_results.errors[i] = ErrorMsg(FailText(l.kind), l.id)
    ELSE \E e \in Range(run.cleanup_results) \cup Range(run.backup_results.cleanup_results) :
           /\ e.type = CleanupType(l.kind)
           /\ e.snapshot_id = l.id
           /\ e.status = "failed"

NoTwoWithOneIdentifier(kind) ==
    \A i, j \in DOMAIN service[kind] :
      service[kind][i][SnapshotIdKey(kind)] = service[kind][j][SnapshotIdKey(kind)] => i = j

\* C19: when two invocations of the Backup Rotator interleave, a create
\* request refused because its identifier exists and a delete request
\* refused because the other invocation deleted the snapshot are recorded in
\* the losing invocation (an error entry, a 'failed' cleanup entry); the
\* service never holds two snapshots with one identifier; and neither
\* invocation reaches the except clause or returns anything but 200.
C19_LostRacesAreRecorded ==
    /\ \A kind \in SourceKinds : NoTwoWithOneIdentifier(kind)
    /\ \A r \in Runs :
         /\ \A l \in lost[r] : LostIsRecorded(runs[r], l)
         /\ runs[r].pc # "fatal"
         /\ runs[r].response.statusCode \in {0, 200}
         /\ runs[r].pc = "done" =>
              /\ runs[r].response.statusCode = 200
              /\ runs[r].response.body = runs[r].backup_results

\* both invocations have returned; one of them lost a create to the other
\* and one of them lost a delete to the other
C19_Witness ==
    /\ \A r \in Runs : runs[r].pc = "done" /\ runs[r].response.statusCode = 200
    /\ \E r \in Runs : \E l \in lost[r] : l.op = "create"
    /\ \E r \in Runs : \E l \in lost[r] : l.op = "delete"

(***************************************************************************)
(* Properties of the four handlers together.                               *)
(***************************************************************************)
\* the response is a 200, or a 500 whose body is the error message alone
Is200Or500(response, error_bodies) ==
    /\ "statusCode" \in DOMAIN response
    /\ response.statusCode \in {200, 500}
    /\ response.statusCode = 500 => response.body \in error_bodies

RelayErrors ==
    {<<"Webhook URL not configured">>, <<"Error processing notification">>}
    \cup { <<"Failed to send Slack notification", o.status>> : o \in PostOutcomes }

\* C11: a handler that has finished has returned a response with status 200
\* or 500; no exception left it, also where the publish of the error
\* notification raised; and the body of a 500 is the error message alone,
\* with none of the results gathered before the failure.
C11_HandlersReturn200Or500 ==
    /\ backup_pc = "done" => Is200Or500(backup_response, {[error |-> error_msg]})
    /\ compliance_pc = "done" => Is200Or500(compliance_response, {})
    /\ relay_pc = "done" => Is200Or500(relay_response, RelayErrors)
    /\ cost_pc = "done" => Is200Or500(cost_response, {})

\* the Backup Rotator took a snapshot, then describe_db_clusters raised, the
\* publish of the error notification raised as well, and the handler
\* returned 500
C11_Witness ==
    /\ backup_pc = "done"
    /\ backup_response.statusCode = 500
    /\ backup_results.db_instances # <<>>
    /\ requests[Len(requests)].op = "publish"
    /\ ~requests[Len(requests)].ok

(***************************************************************************)
(* Properties of the cleanup's records and of the summary.                 *)
(***************************************************************************)

\* the positions at which cleanup_old_snapshots holds its local list
CleanupPositions ==
    {"cleanup_instance_snapshots", "cleanup_clusters", "cleanup_cluster_snapshots",
     "cleanup_return"}

FailedDeletes == { i \in DOMAIN requests : requests[i].op \in DeleteOps /\ ~requests[i].ok }

SucceededDeletes == { i \in DOMAIN requests : requests[i].op \in DeleteOps /\ requests[i].ok }

\* the entry of a delete request: its 'type' and its 'snapshot_id'
EntryType(request) ==
    IF request.op = "delete_db_snapshot" THEN "instance_snapshot" ELSE "cluster_snapshot"

EntryId(request) ==
    IF request.op = "delete_db_snapshot" THEN request.arg.DBSnapshotIdentifier
    ELSE request.arg.DBClusterSnapshotIdentifier

WithStatus(results, status) == { j \in DOMAIN results : results[j].status = status }

RecordedAs(results, request, status) ==
    \E j \in WithStatus(results, status) :
       /\ results[j].type = EntryType(request)
       /\ results[j].snapshot_id = EntryId(request)

\* cleanup_old_snapshots returned its list to the handler
CleanupReturned ==
    /\ backup_pc \in {"notify", "done"}
    /\ Succeeded("describe_db_snapshots") # {}
    /\ Succeeded("describe_db_cluster_snapshots") # {}

CleanupEnumerationFailures ==
    Failed("describe_db_snapshots") \cup Failed("describe_db_cluster_snapshots")

Summaries == { i \in Sent("publish") : requests[i].arg.kind = "summary" }

\* C25: in a finished run that returned its report, every snapshot the run
\* deleted has an entry with status 'deleted' in the cleanup_results of the
\* returned report and of the summary notification.
C25_EveryDeletionReported ==
    (backup_pc = "done" /\ backup_response.statusCode = 200) =>
       \A i \in SucceededDeletes :
          /\ RecordedAs(backup_response.body.cleanup_results, requests[i], "deleted")
          /\ \A n \in Summaries : RecordedAs(requests[n].arg.cleanup, requests[i], "deleted")

\* a finished run that deleted an instance snapshot, whose cluster-snapshot
\* enumeration raised, and whose report and summary have no cleanup entry
C25_DeletionMissingFromReport ==
    /\ backup_pc = "done"
    /\ backup_response.statusCode = 200
    /\ Failed("describe_db_cluster_snapshots") # {}
    /\ \E i \in SucceededDeletes : requests[i].op = "delete_db_snapshot"
    /\ backup_response.body.cleanup_results = <<>>
    /\ \A n \in Summaries : requests[n].arg.cleanup = <<>>

\* C30: the subject of every summary is 'Success' exactly when the errors
\* list of the run is empty, and carries the number of errors otherwise; the
\* errors list has one entry per failed create-snapshot request and per
\* failed enumeration of the cleanup, and none for a failed deletion, which
\* is an entry of cleanup_results.
C30_SuccessIffNoErrors ==
    /\ \A n \in Summaries :
         LET errors == backup_results.errors
         IN  /\ requests[n].arg.subject = <<"Success">> <=> errors = <<>>
             /\ errors # <<>> => requests[n].arg.subject = <<"Errors", Len(errors)>>
             /\ requests[n].arg.total_errors = Len(errors)
    /\ Len(backup_results.errors) =
         Cardinality(Failed("create_db_snapshot"))
         + Cardinality(Failed("create_db_cluster_snapshot"))
         + Cardinality(CleanupEnumerationFailures)
    /\ CleanupReturned =>
         Cardinality(WithStatus(backup_results.cleanup_results, "failed")) =
           Cardinality(FailedDeletes)

\* a finished run whose only failure was the deletion of a snapshot: SNS
\* accepted a summary with the subject 'Success' and the failed entry
C30_Witness ==
    /\ backup_pc = "done"
    /\ FailedDeletes # {}
    /\ backup_results.errors = <<>>
    /\ \E k \in DOMAIN sns_messages :
         /\ sns_messages[k].kind = "summary"
         /\ sns_messages[k].subject = <<"Success">>
         /\ WithStatus(sns_messages[k].cleanup, "failed") # {}

\* the identifiers of the snapshots the run created
CreatedIds ==
    { requests[i].arg.DBSnapshotIdentifier : i \in Succeeded("create_db_snapshot") }
    \cup { requests[i].arg.DBClusterSnapshotIdentifier :
             i \in Succeeded("create_db_cluster_snapshot") }

\* the snapshots the run created that the cleanup loop has passed
ProcessedOwn ==
    { sn \in Processed :
        GetId(sn, "DBSnapshotIdentifier") \in CreatedIds
        \/ GetId(sn, "DBClusterSnapshotIdentifier") \in CreatedIds }

\* C26: the cleanup of a run sends no delete request for a snapshot the same
\* run created; and under every retention of one day or more, the snapshot
\* created by a run is not due at the cutoff the same run computes, whenever
\* in the run the create request and the cleanup happen.
C26_OwnSnapshotNotDeleted ==
    /\ \A i \in DOMAIN requests :
         requests[i].op \in DeleteOps => EntryId(requests[i]) \notin CreatedIds
    /\ \A sn \in ProcessedOwn : ~DeleteRequested(sn)
    /\ (retention_call.pc = "returned" /\ retention_call.retention_days >= 1)
         => ~retention_call.due

\* a finished run that created a snapshot, whose cleanup passed that
\* snapshot after the clock advanced and deleted an older one
C26_Witness ==
    /\ backup_pc = "cleanup_clusters"
    /\ now > StartTime
    /\ ProcessedOwn # {}
    /\ \A sn \in ProcessedOwn : sn.SnapshotCreateTime.t < now
    /\ \E i \in SucceededDeletes : requests[i].op = "delete_db_snapshot"

(***************************************************************************)
(* Properties of the results of the custom checks.                         *)
(***************************************************************************)
CustomCheckNames ==
    {"tagging_compliance", "security_groups", "s3_bucket_policies",
     "encryption_status", "public_access"}

\* the total and the compliant count of a check's result, under the names
\* the check gives them
TotalOf(name, result) ==
    CASE name = "security_groups"    -> result.total_security_groups
      [] name = "s3_bucket_policies" -> result.total_buckets
      [] OTHER                       -> result.total_resources

CompliantOf(name, result) ==
    CASE name = "tagging_compliance" -> result.compliant_resources
      [] name = "security_groups"    -> result.compliant_security_groups
      [] name = "s3_bucket_policies" -> result.compliant_buckets
      [] name = "encryption_status"  -> result.encrypted_resources
      [] name = "public_access"      -> result.private_resources

Balanced(name, result) ==
    /\ CompliantOf(name, result) + Len(result.violations) = TotalOf(name, result)
    /\ CompliantOf(name, result) <= TotalOf(name, result)

\* C27: in the result of each of the five custom checks the compliant count
\* plus the number of entries of the violations list equals the total count,
\* whatever was scanned and also when the check failed and returned the zero
\* result; the same holds of the results in the returned report.
C27_CompliantPlusViolationsIsTotal ==
    /\ \A name \in DOMAIN custom_checks : Balanced(name, custom_checks[name])
    /\ compliance_pc = "done" =>
         \A name \in CustomCheckNames :
             Balanced(name, compliance_response.body.custom_checks[name])

\* a finished invocation: one check counted a compliant and a violating
\* resource, a bucket with two violations was counted once, and one check
\* failed and returned zeros although the account had resources for it
C27_Witness ==
    /\ compliance_pc = "done"
    /\ DOMAIN custom_checks = CustomCheckNames
    /\ \E name \in CustomCheckNames :
         /\ TotalOf(name, custom_checks[name]) = 2
         /\ CompliantOf(name, custom_checks[name]) = 1
    /\ \E i \in DOMAIN account.Buckets :
         Len(bucket_violations(account.Buckets[i])) = 2
    /\ custom_checks["s3_bucket_policies"].total_buckets = 1
    /\ \E name \in raised \cap CustomCheckNames :
         /\ ~AllZero(Unfailed(name))
         /\ TotalOf(name, custom_checks[name]) = 0

(***************************************************************************)
(* Properties of the recommendations.                                      *)
(***************************************************************************)
\* the custom checks in the order generate_recommendations reads them, and
\* the advisory of each
AdvisoryOrder ==
    << "tagging_compliance", "security_groups", "s3_bucket_policies",
       "encryption_status", "public_access" >>

AdvisoryText ==
    << "Apply required tags (Project, Environment, ManagedBy) to all resources",
       "Review security group rules and remove overly permissive access",
       "Enable S3 public access block and server-side encryption",
       "Enable encryption for RDS instances and EBS volumes",
       "Remove public access from resources in private subnets" >>

ConfigAdvisory == "Review and remediate non-compliant AWS Config rules"

RecommendationsMade == compliance_pc \in {"threshold", "done"}

Occurrences(list, x) == Cardinality({ i \in DOMAIN list : list[i] = x })

HasViolations(k) == custom_checks[AdvisoryOrder[k]].violations # <<>>

\* C24: for each of the five custom checks the recommendations hold the
\* check's one fixed advisory exactly when its violation list is not empty,
\* once and in the order of the checks, and nothing else but the advisory of
\* the Config rules: the list is determined by which violation lists are
\* empty, not by what the violations are.
C24_AdvisoryIffViolations ==
    RecommendationsMade =>
        LET recommendations == compliance_report.recommendations
            custom == SelectSeq(recommendations, LAMBDA text : text # ConfigAdvisory)
            due    == SelectSeq(<<1, 2, 3, 4, 5>>, HasViolations)
        IN  /\ \A k \in 1..5 :
                 Occurrences(recommendations, AdvisoryText[k])
                     = IF HasViolations(k) THEN 1 ELSE 0
            /\ custom = [i \in DOMAIN due |-> AdvisoryText[due[i]]]
            /\ Len(recommendations) - Len(custom) \in {0, 1}

\* a finished invocation with a check that found two violations and is
\* advised once, and a check that scanned resources, found no violation and
\* is not advised
C24_Witness ==
    /\ compliance_pc = "done"
    /\ \E k \in 1..5 :
         /\ Len(custom_checks[AdvisoryOrder[k]].violations) = 2
         /\ Occurrences(compliance_report.recommendations, AdvisoryText[k]) = 1
    /\ \E k \in 1..5 :
         /\ TotalOf(AdvisoryOrder[k], custom_checks[AdvisoryOrder[k]]) > 0
         /\ ~HasViolations(k)
         /\ Occurrences(compliance_report.recommendations, AdvisoryText[k]) = 0

(***************************************************************************)
(* Properties of the severity label.                                       *)
(***************************************************************************)
\* the publish requests of the handler and of the direct call
CompliancePublishes ==
    { compliance_requests[i].arg : i \in DOMAIN compliance_requests }

DirectPublishes ==
    { notify_call.published[i].arg : i \in DOMAIN notify_call.published }

\* the band of a score between the bounds 70 and 90
Band(score) ==
    CASE FCmp(score, FromInt(70)) < 0  -> "Critical"
      [] FCmp(score, FromInt(70)) >= 0 /\ FCmp(score, FromInt(90)) < 0 -> "Warning"
      [] FCmp(score, FromInt(90)) >= 0 -> "Good"

\* C23: the label of a compliance notification is Critical when score < 70,
\* Warning when 70 <= score < 90 and Good when score >= 90; and every
\* notification the handler sends is labelled Critical or Warning, never Good.
C23_SeverityBands ==
    /\ \A sent \in CompliancePublishes \cup DirectPublishes :
           sent.severity = Band(sent.score)
    /\ \A sent \in CompliancePublishes : sent.severity \in {"Critical", "Warning"}

\* the handler has published a notification for a score between 70 and 90,
\* labelled Warning
C23_Witness ==
    /\ compliance_pc = "done"
    /\ \E sent \in CompliancePublishes :
         /\ sent.severity = "Warning"
         /\ FLess(FromInt(70), sent.score)
         /\ FLess(sent.score, FromInt(90))

(***************************************************************************)
(* Properties of an invocation that evaluates nothing.                     *)
(***************************************************************************)
\* the fetches are over and no category has an evaluated resource
NothingEvaluated ==
    /\ compliance_pc \in {"compliance_score", "recommendations", "threshold", "done"}
    /\ Get(compliance_report.config_rules_status, "total_rules", 0) = 0
    /\ \A name \in CustomCheckNames : TotalOf(name, custom_checks[name]) = 0

\* C29: when no category has any evaluated resource, because the account is
\* empty or because the fetches failed softly, the score is 0.0; the handler
\* then calls send_compliance_notification, whose publish request (made when
\* a topic is configured) is labelled Critical, and returns 200, not 500.
C29_NothingEvaluatedIsCritical ==
    /\ NothingEvaluated /\ ScoreComputed
           => compliance_report.compliance_score = FZero
    /\ NothingEvaluated /\ compliance_pc = "done" =>
           /\ notification_calls = 1
           /\ SNS_TOPIC_ARN # "" =>
                  /\ Len(compliance_requests) = 1
                  /\ compliance_requests[1].op = "publish"
                  /\ compliance_requests[1].arg.severity = "Critical"
                  /\ compliance_requests[1].arg.score = FZero
           /\ compliance_response.statusCode = 200
           /\ compliance_response.body.compliance_score = FZero

\* a finished invocation on an account with resources, none evaluated because
\* the one fetch that would have counted them failed: the Critical
\* notification was published and 200 returned
C29_Witness ==
    /\ NothingEvaluated
    /\ compliance_pc = "done"
    /\ account # EmptyAccount
    /\ raised # {}
    /\ \E i \in DOMAIN compliance_requests :
         /\ compliance_requests[i].arg.severity = "Critical"
         /\ compliance_requests[i].ok
    /\ compliance_response.statusCode = 200

(***************************************************************************)
(* Properties of the downsize tables.                                      *)
(***************************************************************************)
\* the call estimated the saving of a size of the compute downsize table and
\* of the smaller size the table suggests for it
DownsizeEstimated ==
    /\ savings_call.returned
    /\ savings_call.current \in DOMAIN instance_downsize_map
    /\ savings_call.suggested = suggest_smaller_instance_type(savings_call.current)

\* value is the positive difference of the prices the table holds for the
\* two sizes
PositivePriceDifference(cost_map, current, suggested, value) ==
    /\ current \in DOMAIN cost_map
    /\ suggested \in DOMAIN cost_map
    /\ value = cost_map[current] - cost_map[suggested]
    /\ value > 0

\* C28: for every size of the compute or of the database downsize table,
\* the estimated monthly saving of the move to the suggested smaller size is
\* strictly positive and is the difference of the two sizes' prices.
C28_DownsizeSavingPositive ==
    /\ DownsizeEstimated =>
           PositivePriceDifference(instance_cost_map, savings_call.current,
                                   savings_call.suggested, savings_call.value)
    /\ \A current_class \in DOMAIN rds_downsize_map :
           PositivePriceDifference(rds_cost_map, current_class,
               suggest_smaller_rds_class(current_class),
               estimate_rds_cost_savings(current_class,
                                         suggest_smaller_rds_class(current_class)))

\* the sizes of the compute downsize table that the price table does not
\* hold
UnpricedDownsizes == DOMAIN instance_downsize_map \ DOMAIN instance_cost_map

\* a downsize from a size without a price is estimated to save nothing
C28_UnpricedDownsizeSavesNothing ==
    /\ DownsizeEstimated
    /\ savings_call.current \in UnpricedDownsizes
    /\ savings_call.value = 0

(***************************************************************************)
(* Properties of the storage analysis.                                     *)
(***************************************************************************)
S3Analyzed == cost_pc \in {"reserved", "total", "return", "done"}

\* the buckets of the project that list_buckets returned
ProjectBuckets ==
    { b \in Range(cost_account.s3.Buckets) : str_in(ProjectNameChars, b.Name) }

\* the bucket has a lifecycle policy; without one the request for the
\* lifecycle configuration raises, or answers without rules
HasLifecyclePolicy(b) == b.lifecycle = "rules"

\* the listed objects of the bucket hold more than 1 GB (1024 * 1024 KiB);
\* the sizes of the accounts are whole KiB
ScannedKiB(b) ==
    IF b.list_objects_raises THEN 0
    ELSE FoldLeft(LAMBDA sum, obj : sum + obj.Size \div 1024, 0, b.Contents)

OverOneGB(b) == ScannedKiB(b) > 1024 * 1024

Flagged(b) ==
    \E i \in DOMAIN cost_report.s3_recommendations :
        cost_report.s3_recommendations[i].bucket_name = b.Name

\* C22: analyze_s3_storage flags a bucket of the project exactly when the
\* bucket has no lifecycle policy and its scanned size is strictly greater
\* than 1 GB; a bucket with a policy, or of 1 GB or less, is never flagged.
C22_FlaggedIffNoPolicyAndOverOneGB ==
    S3Analyzed /\ ~cost_account.s3.list_buckets_raises =>
        \A b \in ProjectBuckets : Flagged(b) <=> ~HasLifecyclePolicy(b) /\ OverOneGB(b)

\* a bucket of the project without a lifecycle policy and with 2 GB of
\* objects is not flagged: the request for its lifecycle configuration
\* raised, and the client has no exception class of the name that the except
\* clause gives
C22_UnflaggedWithoutPolicy ==
    /\ cost_pc = "done"
    /\ \E b \in ProjectBuckets :
         /\ b.lifecycle = "raises"
         /\ ~cost_account.s3.exception_class_known
         /\ OverOneGB(b)
         /\ ~Flagged(b)
    /\ cost_response.statusCode = 200

====
